---- MODULE Spec2Model ----
(***************************************************************************)
(* A model of the two stateful components of the agent core:               *)
(*   - LocalModelConcurrencyManager (the concurrency gate),                *)
(*     packages/core/src/utils/localModelConcurrencyManager.ts             *)
(*   - LoopDetectionService (the loop detector),                           *)
(*     packages/core/src/services/loopDetectionService.ts                  *)
(* Each component has its own specification (GateSpec, LoopSpec); the      *)
(* variables of the other component stay at their initial values.          *)
(***************************************************************************)
EXTENDS Integers, Sequences, FiniteSets, TLC

(***************************************************************************)
(* Bounds of the model.                                                    *)
(***************************************************************************)
\* number of executeRequest calls explored
MaxRequests == 3
\* largest maxConcurrentRequests a configuration is given (from 0 up: the
\* constructor and updateConfig take any number)
MaxLimit == 2
\* number of updateConfig calls explored
MaxConfigUpdates == 1
\* addAndCheck calls per prompt (tool calls and short texts)
MaxEvents == 6
\* addAndCheck calls per prompt (texts only)
MaxContentEvents == 4
\* turnStarted calls per prompt
MaxTurnCalls == 1
\* turnStarted calls awaiting generateJson at one time
MaxPendingChecks == 2
\* reset calls
MaxPrompts == 1
\* recordRecoveryAttempt calls per prompt
MaxRecoveryCalls == 1
\* addAndCheck calls per prompt (long texts)
MaxLongEvents == 3
\* addAndCheck calls per prompt (the repeated sentence)
MaxChantEvents == 4
\* addAndCheck calls per prompt (tool calls with two arguments)
MaxArgsEvents == 6

\* turnStarted calls per prompt (the prompt of many turns)
MaxTurns == 41
\* addAndCheck calls per prompt (the prompt of many turns)
MaxTurnEvents == 2
\* recordRecoveryAttempt calls per prompt (the recovery nudges)
MaxRecoveries == 3
\* addAndCheck calls per prompt (the recovery nudges)
MaxRecoveryEvents == 2
\* addAndCheck calls per prompt (the recovery suggestions)
MaxPromptEvents == 6
\* addAndCheck calls per prompt (arguments that cannot be serialized)
MaxThrowEvents == 5
\* requests submitted to the throttled gate
MaxThrottleRequests == 6
\* largest maxConcurrentRequests of the throttled gate
MaxThrottleLimit == 3
\* a large maxConcurrentRequests of the throttled gate
LargeThrottleLimit == 90
\* requests of the burst of failing requests
MaxBurstRequests == 10
\* addAndCheck calls per prompt (the chunk analysis)
MaxChunkEvents == 3
\* addAndCheck calls per prompt (tool calls between texts)
MaxMixEvents == 6
\* turnStarted calls per prompt (the interval of the semantic check)
MaxIntervalTurns == 8
\* addAndCheck calls per prompt (a text fed in several chunks)
MaxSplitEvents == 4

(***************************************************************************)
(* Generic helpers.                                                        *)
(***************************************************************************)
Max2(a, b) == IF a >= b THEN a ELSE b

Min2(a, b) == IF a <= b THEN a ELSE b

SeqToSet(s) == {s[i] : i \in 1..Len(s)}

(***************************************************************************)
(* ----------------------- The concurrency gate -------------------------- *)
(***************************************************************************)
VARIABLES
  activeRequests,      \* Set<string>: ids of the requests counted as in flight
  requestQueue,        \* RequestQueueItem[]: ids of the queued items, FIFO
  config,              \* ConcurrencyConfig (queueTimeout is the timers' delay)
  performanceMetrics,  \* errorRate, averageResponseTime, queueWaitTimes (length)
  promise,             \* per request: state of the promise executeRequest returned
  work,                \* per request: state of its requestFn() call
  timer,               \* per request: the queue-timeout setTimeout is pending
  signal,              \* per request: state of the abort signal and its listener
  gateHistory          \* history of the run: whether a failure, timeout, abort,
                       \* clearQueue or updateConfig has happened, whether the
                       \* effective limit was ever lowered, the ids rejected
                       \* while queued, the ids cancelled while queued, the
                       \* largest limit configured so far

VARIABLES
  detector,     \* the fields of LoopDetectionService
  returned,     \* the last call made on the service and what it returned
  telemetry,    \* the LoopDetectedEvents passed to logLoopDetected, in order
  loopHistory,  \* history of the prompt: calls made, the run of identical
                \* tool calls fed since reset, the fenced block streamed
  pendingChecks \* the calls of turnStarted that await generateJson

loopVars == <<pendingChecks, detector, telemetry, loopHistory, returned>>

gateVars == <<activeRequests, requestQueue, config, performanceMetrics,
              promise, work, timer, signal, gateHistory>>

vars == <<gateVars, loopVars>>

RequestIds == 1..MaxRequests

\* response times (Date.now() - startTime, ms) a completion may observe
ResponseTimes == {0, 400000}

\* abortSignal argument of executeRequest: absent, given and not aborted,
\* or given and already aborted when executeRequest is called
SignalArgs == {"none", "listening", "aborted_before"}

ERR_TIMEOUT == "timed out in queue"

ERR_ABORTED == "Request was aborted"

ERR_CLEARED == "Request queue cleared"

ERR_WORK == "work error"

\* the gate as one value, for the handlers below
Gate ==
  [activeRequests |-> activeRequests, requestQueue |-> requestQueue,
   config |-> config, performanceMetrics |-> performanceMetrics,
   promise |-> promise, work |-> work, timer |-> timer, signal |-> signal,
   gateHistory |-> gateHistory]

\* errorRate and averageResponseTime are JavaScript numbers (IEEE 754
\* doubles). A double that is zero or positive and normal is kept as [m, e],
\* its value m * 2^e with 2^52 <= m < 2^53 (zero is m = 0, e = 0); m is
\* written as four digits of LimbBits bits, the least significant first.
LimbBits == 14

Limb == 2^LimbBits

Zero == [m |-> <<0, 0, 0, 0>>, e |-> 0]

\* the digit i of the digits t, 0 outside them
limbAt(t, i) == IF i >= 1 /\ i <= Len(t) THEN t[i] ELSE 0

\* the four lowest digits of t * 2^s
shl4(t, s) ==
  LET q == s \div LimbBits
      p == 2^(s % LimbBits)
  IN [i \in 1..4 |->
        ((limbAt(t, i - q) * p) % Limb) + ((limbAt(t, i - q - 1) * p) \div Limb)]

\* the four lowest digits of t \div 2^s
shr4(t, s) ==
  LET q == s \div LimbBits
      p == 2^(s % LimbBits)
  IN [i \in 1..4 |->
        (limbAt(t, q + i) \div p) + (limbAt(t, q + i + 1) % p) * (Limb \div p)]

\* t % 2^s # 0
lowBits(t, s) ==
  \E i \in 1..Len(t) :
     \/ i <= (s \div LimbBits) /\ t[i] # 0
     \/ i = (s \div LimbBits) + 1 /\ t[i] % 2^(s % LimbBits) # 0

\* the number of binary digits of a digit v
RECURSIVE limbBits(_)
limbBits(v) == IF v = 0 THEN 0 ELSE 1 + limbBits(v \div 2)

\* the number of binary digits of t
bitLength(t) ==
  IF \A i \in 1..Len(t) : t[i] = 0 THEN 0
  ELSE LET top == CHOOSE i \in 1..Len(t) :
                     t[i] # 0 /\ \A j \in (i + 1)..Len(t) : t[j] = 0
       IN LimbBits * (top - 1) + limbBits(t[top])

\* a + b for four digits each, the sum below 2^56
add4(a, b) ==
  LET s1 == a[1] + b[1]
      s2 == a[2] + b[2] + (s1 \div Limb)
      s3 == a[3] + b[3] + (s2 \div Limb)
      s4 == a[4] + b[4] + (s3 \div Limb)
  IN <<s1 % Limb, s2 % Limb, s3 % Limb, s4>>

\* a - b - borrow for four digits each, a >= b + borrow
sub4(a, b, borrow) ==
  LET d1 == a[1] - b[1] - borrow
      d2 == a[2] - b[2] - (IF d1 < 0 THEN 1 ELSE 0)
      d3 == a[3] - b[3] - (IF d2 < 0 THEN 1 ELSE 0)
      d4 == a[4] - b[4] - (IF d3 < 0 THEN 1 ELSE 0)
      digit(d) == IF d < 0 THEN d + Limb ELSE d
  IN <<digit(d1), digit(d2), digit(d3), d4>>

\* a * b for four digits each, in eight digits
mul8(a, b) ==
  LET s1 == a[1] * b[1]
      s2 == a[1] * b[2] + a[2] * b[1] + (s1 \div Limb)
      s3 == a[1] * b[3] + a[2] * b[2] + a[3] * b[1] + (s2 \div Limb)
      s4 == a[1] * b[4] + a[2] * b[3] + a[3] * b[2] + a[4] * b[1]
              + (s3 \div Limb)
      s5 == a[2] * b[4] + a[3] * b[3] + a[4] * b[2] + (s4 \div Limb)
      s6 == a[3] * b[4] + a[4] * b[3] + (s5 \div Limb)
      s7 == a[4] * b[4] + (s6 \div Limb)
  IN <<s1 % Limb, s2 % Limb, s3 % Limb, s4 % Limb, s5 % Limb, s6 % Limb,
       s7 % Limb, s7 \div Limb>>

\* the double nearest to (t + f) * 2^e, ties to the even mantissa: t is
\* written in digits and f is a fraction in [0, 1) that is not zero iff
\* sticky; sticky only with more than 53 binary digits in t
dRound(t, sticky, e) ==
  LET s == bitLength(t) - 53
      q == shr4(t, s)
      half == (limbAt(t, ((s - 1) \div LimbBits) + 1)
                 \div 2^((s - 1) % LimbBits)) % 2 = 1
      up == half /\ (sticky \/ lowBits(t, s - 1) \/ (q[1] % 2) = 1)
      r == add4(q, <<1, 0, 0, 0>>)
  IN IF s = -53 THEN Zero
     ELSE IF s <= 0 THEN [m |-> shl4(t, -s), e |-> e + s]
     ELSE IF ~up THEN [m |-> q, e |-> e + s]
     ELSE IF r[4] >= 2^11 THEN [m |-> shr4(r, 1), e |-> e + s + 1]
     ELSE [m |-> r, e |-> e + s]

\* the double of an integer n, 0 <= n < 2^31
dFromInt(n) ==
  dRound(<<n % Limb, (n \div Limb) % Limb, n \div (Limb * Limb), 0>>, FALSE, 0)

\* num / den for integers 0 < num < 2^14 and 0 < den < 2^14: the quotient
\* of num * 2^70 by den, digit by digit from the highest
dDiv(num, den) ==
  LET RECURSIVE div(_, _)
      \* the digits of the quotient below digit i, r the remainder above them
      div(i, r) == IF i = 0 THEN [q |-> <<>>, r |-> r]
                   ELSE LET low == div(i - 1, (r * Limb) % den)
                        IN [q |-> Append(low.q, (r * Limb) \div den),
                            r |-> low.r]
      d == div(5, num % den)
  IN dRound(Append(d.q, num \div den), d.r # 0, -5 * LimbBits)

\* x * y
dMul(x, y) == dRound(mul8(x.m, y.m), FALSE, x.e + y.e)

\* x + y
dAdd(x, y) ==
  IF x = Zero THEN y
  ELSE IF y = Zero THEN x
  ELSE LET hi == IF x.e >= y.e THEN x ELSE y
           lo == IF x.e >= y.e THEN y ELSE x
           diff == hi.e - lo.e
           \* both in units of 2^(hi.e - 2), lo cut off below the unit
           cut == IF diff <= 2 THEN shl4(lo.m, 2 - diff)
                  ELSE shr4(lo.m, diff - 2)
       IN dRound(add4(shl4(hi.m, 2), cut),
                 diff > 2 /\ lowBits(lo.m, diff - 2), hi.e - 2)

\* x > y
dGreater(x, y) ==
  IF y = Zero THEN x # Zero
  ELSE IF x = Zero THEN FALSE
  ELSE \/ x.e > y.e
       \/ /\ x.e = y.e
          /\ \E i \in 1..4 : /\ x.m[i] > y.m[i]
                             /\ \A j \in (i + 1)..4 : x.m[j] = y.m[j]

\* x - y for x >= y
dSub(x, y) ==
  IF y = Zero THEN x
  ELSE LET diff == x.e - y.e
           \* both in units of 2^(x.e - 3); what y has below the unit is
           \* borrowed from the unit and leaves a fraction
           cut == IF diff <= 3 THEN shl4(y.m, 3 - diff)
                  ELSE shr4(y.m, diff - 3)
           frac == diff > 3 /\ lowBits(y.m, diff - 3)
       IN dRound(sub4(shl4(x.m, 3), cut, IF frac THEN 1 ELSE 0), frac, x.e - 3)

\* const errorWeight = 1 / 20
errorWeight == dDiv(1, 20)

\* const timeWeight = 0.1
timeWeight == dDiv(1, 10)

\* (1 - errorWeight), the weight of the error rate so far
errorKeep == dSub(dFromInt(1), errorWeight)

\* (1 - timeWeight), the weight of the average so far
timeKeep == dSub(dFromInt(1), timeWeight)

\* the literal 0.2 of errorRate > 0.2
HighErrorRate == dDiv(2, 10)

\* the literal 30000 of averageResponseTime > 30000
SlowResponseTime == dFromInt(30000)

\* the largest power of two below m, from p up (m > 1)
RECURSIVE pow2Below(_, _)
pow2Below(m, p) == IF 2 * p < m THEN pow2Below(m, 2 * p) ELSE p

\* Math.floor(n * 0.7) in IEEE doubles, n a non-negative integer: 0.7 is
\* stored as 0.7 - 0.4 * 2^-53, so when 7n/10 is an integer m the product
\* lies 4 * (n / 10) * 2^-53 below m and is rounded back to m only while
\* that is at most half the spacing 2^(k-52) of the doubles below m
\* (2^k < m <= 2^(k+1)); otherwise it stays below m and the floor is m - 1
\* (n = 90, 170, 180, 330, ...)
floorSevenTenths(n) ==
  IF n > 0 /\ n % 10 = 0 /\ 4 * (n \div 10) > pow2Below(7 * (n \div 10), 1)
  THEN 7 * (n \div 10) - 1
  ELSE (7 * n) \div 10

\* getEffectiveConcurrencyLimit(): Math.floor(baseLimit * 0.5) is exact in
\* doubles, Math.floor(baseLimit * 0.7) is floorSevenTenths
getEffectiveConcurrencyLimit(cfg, pm) ==
  IF ~cfg.adaptiveThrottling THEN cfg.maxConcurrentRequests
  ELSE IF dGreater(pm.errorRate, HighErrorRate)
       THEN Max2(1, cfg.maxConcurrentRequests \div 2)
  ELSE IF dGreater(pm.averageResponseTime, SlowResponseTime)
       THEN Max2(1, floorSevenTenths(cfg.maxConcurrentRequests))
  ELSE cfg.maxConcurrentRequests

SetGate(g) ==
  /\ activeRequests' = g.activeRequests
  /\ requestQueue' = g.requestQueue
  /\ config' = g.config
  /\ performanceMetrics' = g.performanceMetrics
  /\ promise' = g.promise
  /\ work' = g.work
  /\ timer' = g.timer
  /\ signal' = g.signal
  /\ gateHistory' =
       [g.gateHistory EXCEPT
          !.limitLowered =
             @ \/ getEffectiveConcurrencyLimit(g.config, g.performanceMetrics)
                    < getEffectiveConcurrencyLimit(config, performanceMetrics)]
  /\ UNCHANGED loopVars

\* updatePerformanceMetrics(responseTime, isError)
updatePerformanceMetrics(pm, responseTime, isError) ==
  LET er == dAdd(dMul(pm.errorRate, errorKeep),
                 IF isError THEN errorWeight ELSE Zero)
      avg == IF ~isError /\ responseTime > 0
             THEN dAdd(dMul(pm.averageResponseTime, timeKeep),
                       dMul(dFromInt(responseTime), timeWeight))
             ELSE pm.averageResponseTime
  IN [pm EXCEPT !.errorRate = er, !.averageResponseTime = avg]

\* mutant of removeFromQueue: splices out the head of the queue
removeFromQueueHead(q, id) ==
  IF Len(q) > 0 THEN Tail(q) ELSE q

\* removeFromQueue(requestId): splice out the first item with that id
removeFromQueue(q, id) ==
  IF \E i \in 1..Len(q) : q[i] = id
  THEN LET i == CHOOSE j \in 1..Len(q) :
                  q[j] = id /\ \A k \in 1..(j - 1) : q[k] # id
       IN SubSeq(q, 1, i - 1) \o SubSeq(q, i + 1, Len(q))
  ELSE q

\* the Promise's own resolve/reject: only a pending promise settles
settle(p, id, outcome) ==
  IF p[id] = "pending" THEN [p EXCEPT ![id] = outcome] ELSE p

\* mutant of the admission test: admits while size <= limit
AdmitAllowedOffByOne(g) ==
  /\ Cardinality(g.activeRequests)
       <= getEffectiveConcurrencyLimit(g.config, g.performanceMetrics)
  /\ Len(g.requestQueue) > 0

\* the while condition of processQueue()
AdmitAllowed(g) ==
  /\ Cardinality(g.activeRequests)
       < getEffectiveConcurrencyLimit(g.config, g.performanceMetrics)
  /\ Len(g.requestQueue) > 0

\* mutant of the dequeue: takes the newest item (pop instead of shift)
NextQueuedNewest(q) == Len(q)

\* which item processQueue() dequeues: requestQueue.shift() takes the first
NextQueued(q) == 1

\* one iteration of the loop of processQueue(): shift, record the wait time
\* (at most 100 kept), mark active, clear the queue timer, call requestFn()
admit(g) ==
  LET i == NextQueued(g.requestQueue)
      id == g.requestQueue[i]
      q == g.requestQueue
  IN [g EXCEPT
        !.requestQueue = SubSeq(q, 1, i - 1) \o SubSeq(q, i + 1, Len(q)),
        !.performanceMetrics.queueWaitTimes = Min2(@ + 1, 100),
        !.activeRequests = @ \cup {id},
        !.timer[id] = FALSE,
        !.work[id] = "running"]

RECURSIVE processQueue(_)
processQueue(g) ==
  IF AdmitAllowed(g) THEN processQueue(admit(g)) ELSE g

\* queueItem.resolve(result)
itemResolve(g, id, responseTime) ==
  processQueue(
    [g EXCEPT
       !.activeRequests = @ \ {id},
       !.performanceMetrics = updatePerformanceMetrics(@, responseTime, FALSE),
       !.promise = settle(@, id, "fulfilled")])

\* mutant of queueItem.reject: the request stays in activeRequests
itemRejectKeepingActive(g, id, error) ==
  processQueue(
    [g EXCEPT
       !.performanceMetrics = updatePerformanceMetrics(@, 0, TRUE),
       !.promise = settle(@, id, error)])

\* queueItem.reject(error)
itemReject(g, id, error) ==
  processQueue(
    [g EXCEPT
       !.activeRequests = @ \ {id},
       !.performanceMetrics = updatePerformanceMetrics(@, 0, TRUE),
       !.promise = settle(@, id, error)])

\* history bookkeeping
noted(g, kind) ==
  [g EXCEPT !.gateHistory.undisturbed = FALSE,
            !.gateHistory.configUpdates = IF kind = "config" THEN @ + 1 ELSE @]

notedQueued(g, id) ==
  IF id \in SeqToSet(g.requestQueue)
  THEN [g EXCEPT !.gateHistory.rejectedQueued = @ \cup {id}]
  ELSE g

submitted == {id \in DOMAIN promise : promise[id] # "unsubmitted"}

\* executeRequest(requestId, requestFn, abortSignal)
ExecuteRequest(id, sig) ==
  /\ id = Cardinality(submitted) + 1
  /\ id \in DOMAIN promise
  /\ SetGate(processQueue(
       [Gate EXCEPT
          !.requestQueue = Append(@, id),
          !.promise[id] = "pending",
          !.timer[id] = TRUE,
          !.signal[id] = sig]))

\* requestFn() of an admitted request resolves: executeRequestAsync calls
\* queueItem.resolve(result)
WorkResolve(id, responseTime) ==
  /\ work[id] = "running"
  /\ SetGate(itemResolve([Gate EXCEPT !.work[id] = "finished"], id, responseTime))

\* requestFn() of an admitted request throws: executeRequestAsync calls
\* queueItem.reject(error)
WorkThrow(id) ==
  /\ work[id] = "running"
  /\ SetGate(itemReject(noted([Gate EXCEPT !.work[id] = "finished"], "fail"),
                        id, ERR_WORK))

\* the setTimeout callback of executeRequest
QueueTimeout(id) ==
  /\ timer[id]
  /\ SetGate(itemReject(
       [noted(notedQueued(Gate, id), "timeout") EXCEPT
          !.timer[id] = FALSE,
          !.requestQueue = removeFromQueue(@, id)],
       id, ERR_TIMEOUT))

\* the 'abort' listener of executeRequest
Abort(id) ==
  /\ signal[id] = "listening"
  /\ SetGate(itemReject(
       [noted(notedQueued(Gate, id), "abort") EXCEPT
          !.gateHistory.abortedQueued =
             IF id \in SeqToSet(requestQueue) THEN @ \cup {id} ELSE @,
          !.signal[id] = "fired",
          !.timer[id] = FALSE,
          !.requestQueue = removeFromQueue(@, id),
          !.activeRequests = @ \ {id}],
       id, ERR_ABORTED))

\* updateConfig(newConfig)
UpdateConfig(newMax, newAdaptive) ==
  /\ gateHistory.configUpdates < MaxConfigUpdates
  /\ <<newMax, newAdaptive>>
       # <<config.maxConcurrentRequests, config.adaptiveThrottling>>
  /\ SetGate(
       [noted(Gate, "config") EXCEPT
          !.config.maxConcurrentRequests = newMax,
          !.config.adaptiveThrottling = newAdaptive,
          !.gateHistory.maxLimitSeen = Max2(@, newMax)])

\* requestQueue.forEach(item => item.reject(...)): index k (0-based) is
\* visited only if the array still has it when the loop gets there
RECURSIVE forEachReject(_, _, _)
forEachReject(g, k, len) ==
  IF k >= len THEN g
  ELSE IF k + 1 <= Len(g.requestQueue)
       THEN forEachReject(
              itemReject(notedQueued(g, g.requestQueue[k + 1]),
                         g.requestQueue[k + 1], ERR_CLEARED),
              k + 1, len)
  ELSE forEachReject(g, k + 1, len)

\* clearQueue()
ClearQueue ==
  /\ Len(requestQueue) > 0
  /\ SetGate(
       [forEachReject(noted(Gate, "clear"), 0, Len(requestQueue)) EXCEPT
          !.requestQueue = <<>>])

GateInit ==
  /\ activeRequests = {}
  /\ requestQueue = <<>>
  /\ config \in [maxConcurrentRequests : 0..MaxLimit,
                 adaptiveThrottling : BOOLEAN]
  /\ performanceMetrics =
       [averageResponseTime |-> Zero, errorRate |-> Zero, queueWaitTimes |-> 0]
  /\ promise = [id \in RequestIds |-> "unsubmitted"]
  /\ work = [id \in RequestIds |-> "notstarted"]
  /\ timer = [id \in RequestIds |-> FALSE]
  /\ signal = [id \in RequestIds |-> "none"]
  /\ gateHistory = [undisturbed |-> TRUE, configUpdates |-> 0,
                    limitLowered |-> FALSE, rejectedQueued |-> {},
                    abortedQueued |-> {},
                    maxLimitSeen |-> config.maxConcurrentRequests]

\* a gate just constructed with one of the configs, and the requests ids
\* that will be submitted to it
GateFresh(ids, configs) ==
  /\ activeRequests = {}
  /\ requestQueue = <<>>
  /\ config \in configs
  /\ performanceMetrics =
       [averageResponseTime |-> Zero, errorRate |-> Zero, queueWaitTimes |-> 0]
  /\ promise = [id \in ids |-> "unsubmitted"]
  /\ work = [id \in ids |-> "notstarted"]
  /\ timer = [id \in ids |-> FALSE]
  /\ signal = [id \in ids |-> "none"]
  /\ gateHistory = [undisturbed |-> TRUE, configUpdates |-> 0,
                    limitLowered |-> FALSE, rejectedQueued |-> {},
                    abortedQueued |-> {},
                    maxLimitSeen |-> config.maxConcurrentRequests]

\* requests whose work resolves or throws, on a gate left to itself
ThrottleNext ==
  \/ \E id \in 1..MaxThrottleRequests : ExecuteRequest(id, "none")
  \/ \E id \in 1..MaxThrottleRequests, rt \in ResponseTimes :
        WorkResolve(id, rt)
  \/ \E id \in 1..MaxThrottleRequests : WorkThrow(id)

\* requests whose work throws
BurstNext ==
  \/ \E id \in 1..MaxBurstRequests : ExecuteRequest(id, "none")
  \/ \E id \in 1..MaxBurstRequests : WorkThrow(id)

GateNext ==
  \/ \E id \in RequestIds, sig \in SignalArgs : ExecuteRequest(id, sig)
  \/ \E id \in RequestIds, rt \in ResponseTimes : WorkResolve(id, rt)
  \/ \E id \in RequestIds : WorkThrow(id)
  \/ \E id \in RequestIds : QueueTimeout(id)
  \/ \E id \in RequestIds : Abort(id)
  \/ \E m \in 0..MaxLimit, a \in BOOLEAN : UpdateConfig(m, a)
  \/ ClearQueue


(***************************************************************************)
(* -------------------------- The loop detector -------------------------- *)
(***************************************************************************)
TOOL_CALL_LOOP_THRESHOLD == 5

CONTENT_LOOP_THRESHOLD == 4

CONTENT_CHUNK_SIZE == 20

MAX_HISTORY_LENGTH == 1000

LLM_CHECK_AFTER_TURNS == 30

DEFAULT_LLM_CHECK_INTERVAL == 3

MIN_LLM_CHECK_INTERVAL == 5

MAX_LLM_CHECK_INTERVAL == 15

MAX_RECOVERY_ATTEMPTS == 2

\* the value null
NULL == [null |-> TRUE]

\* ---- text: a string is a sequence of one-character strings ----
NL == "\n"

\* the backtick character (a TLA+ string cannot hold it)
BT == "backtick"

Rep(s, n) == [i \in 1..(Len(s) * n) |-> s[((i - 1) % Len(s)) + 1]]

\* the regular expression class \s: the white space and the line
\* terminators of ECMAScript; a character that a string of this module
\* cannot hold is written as its code point
IsSpace(c) ==
  c \in {" ", NL, "\t", "\r", "\f", "U+000B", "U+00A0", "U+1680", "U+2000",
         "U+2001", "U+2002", "U+2003", "U+2004", "U+2005", "U+2006", "U+2007",
         "U+2008", "U+2009", "U+200A", "U+2028", "U+2029", "U+202F", "U+205F",
         "U+3000", "U+FEFF"}

\* the regular expression . matches any character but a line terminator
IsLineTerminator(c) == c \in {NL, "\r", "U+2028", "U+2029"}

\* the regular expression class \d
IsDigit(c) == c \in {"0", "1", "2", "3", "4", "5", "6", "7", "8", "9"}

\* the class of charRepeatPattern: any character but # - * _ = . , ' " ( )
\* and white space
IsRepeatable(c) ==
  ~IsSpace(c) /\ c \notin {"#", "-", "*", "_", "=", ".", ",", "'", "\"", "(", ")"}

\* String.prototype.slice(-n)
sliceLast(t, n) == SubSeq(t, Max2(1, Len(t) - n + 1), Len(t))

\* String.prototype.substring(from, to), 0-based, to exclusive
substring(t, from, to) == SubSeq(t, from + 1, Min2(to, Len(t)))

\* (text.match(/c/g) || []).length for a one-character pattern
countChar(t, c) == Cardinality({i \in 1..Len(t) : t[i] = c})

\* (content.match(/```/g) ?? []).length: leftmost non-overlapping matches,
\* so a run of L backticks holds L div 3 of them
numFences(t) ==
  Cardinality(
    {i \in 1..Len(t) :
       /\ t[i] = BT
       /\ LET start == CHOOSE j \in 1..i :
                         /\ \A m \in j..i : t[m] = BT
                         /\ (j = 1 \/ t[j - 1] # BT)
          IN (i - start + 1) % 3 = 0})

\* position p starts a line: the (^|\n) of the patterns
lineStart(t, p) == p = 1 \/ t[p - 1] = NL

\* (^|\n)\s* can end right before position q
afterLineLead(t, q) ==
  \E p \in 1..q : lineStart(t, p) /\ \A m \in p..(q - 1) : IsSpace(t[m])

\* /(^|\n)\s*(\|.*\||[|+-]{3,})/.test(content)
hasTable(t) ==
  \E q \in 1..Len(t) :
    /\ \/ /\ t[q] = "|"
          /\ \E r \in (q + 1)..Len(t) :
               t[r] = "|" /\ \A m \in (q + 1)..(r - 1) : ~IsLineTerminator(t[m])
       \/ /\ q + 2 <= Len(t)
          /\ \A m \in q..(q + 2) : t[m] \in {"|", "+", "-"}
    /\ afterLineLead(t, q)

\* /(^|\n)\s*[*-+]\s/.test(content) || /(^|\n)\s*\d+\.\s/.test(content);
\* the class [*-+] is the range from * to +, which holds these two only
hasListItem(t) ==
  \/ \E q \in 1..(Len(t) - 1) :
       t[q] \in {"*", "+"} /\ IsSpace(t[q + 1]) /\ afterLineLead(t, q)
  \/ \E q \in 1..(Len(t) - 2) :
       /\ IsDigit(t[q])
       /\ \E r \in (q + 1)..(Len(t) - 1) :
            /\ \A m \in q..(r - 1) : IsDigit(t[m])
            /\ t[r] = "."
            /\ IsSpace(t[r + 1])
       /\ afterLineLead(t, q)

\* /(^|\n)#+\s/.test(content)
hasHeading(t) ==
  \E p \in 1..(Len(t) - 1) :
    /\ t[p] = "#"
    /\ lineStart(t, p)
    /\ \E r \in (p + 1)..Len(t) :
         (\A m \in p..(r - 1) : t[m] = "#") /\ IsSpace(t[r])

\* /(^|\n)>\s/.test(content)
hasBlockquote(t) ==
  \E p \in 1..(Len(t) - 1) :
    t[p] = ">" /\ IsSpace(t[p + 1]) /\ lineStart(t, p)

\* charRepeatPattern: a repeatable character 16 or more times in a row
hasCharRepeat(t) ==
  \E i \in 1..(Len(t) - 15) :
    IsRepeatable(t[i]) /\ \A k \in 1..15 : t[i + k] = t[i]

\* the three characters **", the unit of brokenQuotePattern
BROKEN_QUOTE == <<"*", "*", "\"">>

\* brokenQuotePattern: the unit three or more times in a row
hasBrokenQuote(t) ==
  \E i \in 1..(Len(t) - 8) :
    t[i] = "*" /\ SubSeq(t, i, i + 8) = Rep(BROKEN_QUOTE, 3)

\* text.length > 100 with quotes over 60% and stars over 60% of the text
hasDenseQuotes(t) ==
  /\ Len(t) > 100
  /\ countChar(t, "\"") * 10 > Len(t) * 6
  /\ countChar(t, "*") * 10 > Len(t) * 6

\* the body of the loop of hasObviousRepetition, for one text
obviousIn(t) == hasCharRepeat(t) \/ hasBrokenQuote(t) \/ hasDenseQuotes(t)

\* hasObviousRepetition(content), called after content was appended to
\* streamContentHistory
hasObviousRepetition(history, content) ==
  \/ obviousIn(content)
  \/ /\ Len(history) > 0
     /\ \/ obviousIn(sliceLast(history, 300))
        \/ obviousIn(sliceLast(history, 300) \o content)

\* createHash('sha256').update(x).digest('hex'): injective on the inputs met
sha256(x) == [sha256 |-> x]

\* a property key that is an array index: the decimal numeral, without a
\* leading zero, of an integer from 0 to 4294967294 (2^32 - 2)
isArrayIndex(key) ==
  /\ Len(key) \in 1..10
  /\ \A i \in 1..Len(key) : \E n \in 0..9 : SubSeq(key, i, i) = ToString(n)
  /\ Len(key) > 1 => SubSeq(key, 1, 1) # "0"
  /\ Len(key) = 10 =>
        \/ SubSeq(key, 1, 1) \in {"1", "2", "3"}
        \/ /\ SubSeq(key, 1, 1) = "4"
           /\ LET val(a, b) ==
                     CHOOSE v \in 0..99999 : ToString(v) = SubSeq(key, a, b)
                   \* the digits after the leading 4, in two halves:
                   \* 4294967294 is 4 29496 7294
                   high == IF SubSeq(key, 2, 2) = "0" THEN 0 ELSE val(2, 6)
                   lowFrom == CHOOSE a \in 7..10 :
                                /\ a = 10 \/ SubSeq(key, a, a) # "0"
                                /\ \A b \in 7..(a - 1) : SubSeq(key, b, b) = "0"
                   low == val(lowFrom, 10)
               IN high < 29496 \/ (high = 29496 /\ low <= 7294)

\* JSON.stringify(args): the properties whose key is an array index first, in
\* ascending numeric order, then the others in insertion order; args lists
\* the properties of the object in insertion order
JSON_stringify(args) ==
  LET digit(key, i) == CHOOSE n \in 0..9 : SubSeq(key, i, i) = ToString(n)
      indexLess(a, b) ==
        \/ Len(a) < Len(b)
        \/ /\ Len(a) = Len(b)
           /\ \E i \in 1..Len(a) :
                 /\ SubSeq(a, 1, i - 1) = SubSeq(b, 1, i - 1)
                 /\ digit(a, i) < digit(b, i)
      indices == {i \in 1..Len(args) : isArrayIndex(args[i][1])}
      rank(i) ==
        IF i \in indices
        THEN 1 + Cardinality({j \in indices :
                                indexLess(args[j][1], args[i][1])})
        ELSE Cardinality(indices)
               + Cardinality({j \in 1..i : j \notin indices})
  IN [r \in 1..Len(args) |->
        LET i == CHOOSE i \in 1..Len(args) : rank(i) = r
        IN <<args[i][1], ":", args[i][2]>>]

\* the value of a property that refers back to the args object itself
SELF == "[Circular]"

\* JSON.stringify(args) throws a TypeError on a circular structure
JSON_stringify_throws(args) == \E i \in 1..Len(args) : args[i][2] = SELF

\* getToolCallKey(toolCall)
getToolCallKey(toolCall) ==
  sha256(<<toolCall.name, ":", JSON_stringify(toolCall.args)>>)

\* the service right after construction
NewDetector ==
  [promptId |-> "",
   lastToolCallKey |-> NULL,
   toolCallRepetitionCount |-> 0,
   streamContentHistory |-> <<>>,
   contentStats |-> <<>>,
   lastContentIndex |-> 0,
   loopDetected |-> FALSE,
   inCodeBlock |-> FALSE,
   turnsInCurrentPrompt |-> 0,
   llmCheckInterval |-> DEFAULT_LLM_CHECK_INTERVAL,
   lastCheckTurn |-> 0,
   loopRecoveryAttempts |-> 0]

\* new LoopDetectedEvent(loopType, this.promptId)
LoopDetectedEvent(loopType, d) == [loop_type |-> loopType, prompt_id |-> d.promptId]

\* what a check hands back: the service, the boolean, the events logged
Out(d, ret, log) == [d |-> d, ret |-> ret, log |-> log, thrown |-> FALSE]

\* a check that throws instead: the service as the exception leaves it
Throw(d) == [d |-> d, ret |-> FALSE, log |-> <<>>, thrown |-> TRUE]

\* resetToolCallCount()
resetToolCallCount(d) ==
  [d EXCEPT !.lastToolCallKey = NULL, !.toolCallRepetitionCount = 0]

\* mutant of resetContentTracking: called with resetHistory = false
resetContentTrackingKeepingHistory(d) ==
  [d EXCEPT !.contentStats = <<>>, !.lastContentIndex = 0]

\* resetContentTracking()
resetContentTracking(d) ==
  [d EXCEPT !.streamContentHistory = <<>>,
            !.contentStats = <<>>,
            !.lastContentIndex = 0]

\* resetLlmCheckTracking()
resetLlmCheckTracking(d) ==
  [d EXCEPT !.turnsInCurrentPrompt = 0,
            !.llmCheckInterval = DEFAULT_LLM_CHECK_INTERVAL,
            !.lastCheckTurn = 0]

\* mutant of the repetition test: the threshold is reached one call late
ToolLoopReachedLate(count) == count > TOOL_CALL_LOOP_THRESHOLD

\* the threshold test of checkToolCallLoop
ToolLoopReached(count) == count >= TOOL_CALL_LOOP_THRESHOLD

\* checkToolCallLoop(toolCall)
checkToolCallLoop(d, toolCall) ==
  LET key == getToolCallKey(toolCall)
      d1 == IF d.lastToolCallKey = key
            THEN [d EXCEPT !.toolCallRepetitionCount = @ + 1]
            ELSE [d EXCEPT !.lastToolCallKey = key,
                           !.toolCallRepetitionCount = 1]
  IN IF JSON_stringify_throws(toolCall.args) THEN Throw(d)
     ELSE IF ToolLoopReached(d1.toolCallRepetitionCount)
     THEN Out(d1, TRUE,
              <<LoopDetectedEvent("consecutive_identical_tool_calls", d1)>>)
     ELSE Out(d1, FALSE, <<>>)

\* mutant of truncateAndUpdate: the stored offsets are not shifted
truncateAndUpdateKeepingOffsets(d) ==
  IF Len(d.streamContentHistory) <= MAX_HISTORY_LENGTH THEN d
  ELSE LET truncationAmount == Len(d.streamContentHistory) - MAX_HISTORY_LENGTH
       IN [d EXCEPT
             !.streamContentHistory =
                SubSeq(@, truncationAmount + 1, Len(@)),
             !.lastContentIndex = Max2(0, @ - truncationAmount)]

\* truncateAndUpdate()
truncateAndUpdate(d) ==
  IF Len(d.streamContentHistory) <= MAX_HISTORY_LENGTH THEN d
  ELSE LET truncationAmount == Len(d.streamContentHistory) - MAX_HISTORY_LENGTH
           adjusted(h) ==
             SelectSeq([i \in 1..Len(d.contentStats[h]) |->
                          d.contentStats[h][i] - truncationAmount],
                       LAMBDA index : index >= 0)
           kept == {h \in DOMAIN d.contentStats : Len(adjusted(h)) > 0}
       IN [d EXCEPT
             !.streamContentHistory =
                SubSeq(@, truncationAmount + 1, Len(@)),
             !.lastContentIndex = Max2(0, @ - truncationAmount),
             !.contentStats = [h \in kept |-> adjusted(h)]]

\* mutant of hasMoreChunksToProcess: the last whole chunk is left out
hasMoreChunksToProcessStrict(d) ==
  d.lastContentIndex + CONTENT_CHUNK_SIZE < Len(d.streamContentHistory)

\* hasMoreChunksToProcess()
hasMoreChunksToProcess(d) ==
  d.lastContentIndex + CONTENT_CHUNK_SIZE <= Len(d.streamContentHistory)

\* isActualContentMatch(currentChunk, originalIndex)
isActualContentMatch(d, currentChunk, originalIndex) ==
  substring(d.streamContentHistory, originalIndex,
            originalIndex + CONTENT_CHUNK_SIZE) = currentChunk

\* a chunk test that allows an average distance of 1.5 chunks only
isLoopDetectedForChunkTighter(d, chunk, hash) ==
  IF hash \notin DOMAIN d.contentStats
  THEN Out([d EXCEPT !.contentStats = @ @@ (hash :> <<d.lastContentIndex>>)],
           FALSE, <<>>)
  ELSE IF ~isActualContentMatch(d, chunk, d.contentStats[hash][1])
  THEN Out(d, FALSE, <<>>)
  ELSE LET existingIndices == Append(d.contentStats[hash], d.lastContentIndex)
           d1 == [d EXCEPT !.contentStats[hash] = existingIndices]
           n == Len(existingIndices)
       IN IF n < CONTENT_LOOP_THRESHOLD THEN Out(d1, FALSE, <<>>)
          ELSE LET totalDistance ==
                     existingIndices[n]
                       - existingIndices[n - CONTENT_LOOP_THRESHOLD + 1]
               IN Out(d1,
                      2 * totalDistance
                        <= 3 * CONTENT_CHUNK_SIZE * (CONTENT_LOOP_THRESHOLD - 1),
                      <<>>)

\* isLoopDetectedForChunk(chunk, hash)
isLoopDetectedForChunk(d, chunk, hash) ==
  IF hash \notin DOMAIN d.contentStats
  THEN Out([d EXCEPT !.contentStats = @ @@ (hash :> <<d.lastContentIndex>>)],
           FALSE, <<>>)
  ELSE IF ~isActualContentMatch(d, chunk, d.contentStats[hash][1])
  THEN Out(d, FALSE, <<>>)
  ELSE LET existingIndices == Append(d.contentStats[hash], d.lastContentIndex)
           d1 == [d EXCEPT !.contentStats[hash] = existingIndices]
           n == Len(existingIndices)
       IN IF n < CONTENT_LOOP_THRESHOLD THEN Out(d1, FALSE, <<>>)
          ELSE LET totalDistance ==
                     existingIndices[n]
                       - existingIndices[n - CONTENT_LOOP_THRESHOLD + 1]
               \* averageDistance <= CONTENT_CHUNK_SIZE * 2.0
               IN Out(d1,
                      totalDistance
                        <= 2 * CONTENT_CHUNK_SIZE * (CONTENT_LOOP_THRESHOLD - 1),
                      <<>>)

\* the loop of analyzeContentChunksForLoop(), at most steps iterations of it;
\* done tells that the loop has ended
RECURSIVE analyzeSteps(_, _)
analyzeSteps(d, steps) ==
  IF ~hasMoreChunksToProcess(d) THEN [out |-> Out(d, FALSE, <<>>), done |-> TRUE]
  ELSE IF steps = 0 THEN [out |-> Out(d, FALSE, <<>>), done |-> FALSE]
  ELSE LET currentChunk ==
             substring(d.streamContentHistory, d.lastContentIndex,
                       d.lastContentIndex + CONTENT_CHUNK_SIZE)
           r == isLoopDetectedForChunk(d, currentChunk, sha256(currentChunk))
       IN IF r.ret
          THEN [out |-> Out(r.d, TRUE,
                            <<LoopDetectedEvent("chanting_identical_sentences", r.d)>>),
                done |-> TRUE]
          ELSE analyzeSteps([r.d EXCEPT !.lastContentIndex = @ + 1], steps - 1)

\* analyzeContentChunksForLoop(): the loop, run in stretches of 32 iterations
RECURSIVE analyzeContentChunksForLoop(_)
analyzeContentChunksForLoop(d) ==
  LET r == analyzeSteps(d, 32)
  IN IF r.done THEN r.out ELSE analyzeContentChunksForLoop(r.out.d)

\* checkContentLoop(content)
checkContentLoop(d, content) ==
  LET fences == numFences(content)
      d1 == IF \/ fences > 0
               \/ hasTable(content)
               \/ hasListItem(content)
               \/ hasHeading(content)
               \/ hasBlockquote(content)
            THEN resetContentTracking(d)
            ELSE d
      wasInCodeBlock == d1.inCodeBlock
      d2 == [d1 EXCEPT !.inCodeBlock = IF fences % 2 = 0 THEN @ ELSE ~@]
  IN IF wasInCodeBlock \/ d2.inCodeBlock THEN Out(d2, FALSE, <<>>)
     ELSE LET d3 == [d2 EXCEPT !.streamContentHistory = @ \o content]
          IN IF hasObviousRepetition(d3.streamContentHistory, content)
             THEN Out(d3, TRUE, <<>>)
             ELSE analyzeContentChunksForLoop(truncateAndUpdate(d3))

\* mutant of addAndCheck: a Content event starts the run of tool calls anew
addAndCheckResettingCalls(d, event) ==
  IF d.loopDetected THEN Out(d, TRUE, <<>>)
  ELSE LET r == CASE event.type = "tool_call_request" ->
                       checkToolCallLoop(resetContentTracking(d), event.value)
                  [] event.type = "content" ->
                       checkContentLoop(resetToolCallCount(d), event.value)
                  [] OTHER -> Out(d, d.loopDetected, <<>>)
       IN IF r.thrown THEN Throw(r.d)
          ELSE Out([r.d EXCEPT !.loopDetected = r.ret], r.ret, r.log)

\* mutant of addAndCheck: no short-circuit once a loop was detected
addAndCheckReanalysing(d, event) ==
  LET r == CASE event.type = "tool_call_request" ->
                  checkToolCallLoop(resetContentTracking(d), event.value)
             [] event.type = "content" ->
                  checkContentLoop(d, event.value)
             [] OTHER -> Out(d, d.loopDetected, <<>>)
  IN Out([r.d EXCEPT !.loopDetected = r.ret], r.ret, r.log)

\* addAndCheck(event)
addAndCheck(d, event) ==
  IF d.loopDetected THEN Out(d, TRUE, <<>>)
  ELSE LET r == CASE event.type = "tool_call_request" ->
                       checkToolCallLoop(resetContentTracking(d), event.value)
                  [] event.type = "content" ->
                       checkContentLoop(d, event.value)
                  [] OTHER -> Out(d, d.loopDetected, <<>>)
       IN IF r.thrown THEN Throw(r.d)
          ELSE Out([r.d EXCEPT !.loopDetected = r.ret], r.ret, r.log)

\* a semantic check that widens the interval when the model call fails
checkForLoopWithLLMBackingOff(d, llm) ==
  CASE llm.kind \in {"openai", "no_confidence"} -> Out(d, FALSE, <<>>)
    [] llm.kind = "throws" ->
         Out([d EXCEPT !.llmCheckInterval = MAX_LLM_CHECK_INTERVAL], FALSE, <<>>)
    [] llm.kind = "confidence" ->
         IF llm.confidence > 900
         THEN Out(d, TRUE, <<LoopDetectedEvent("llm_detected_loop", d)>>)
         ELSE Out([d EXCEPT !.llmCheckInterval =
                     \* Math.round(MIN + (MAX - MIN) * (1 - confidence))
                     MIN_LLM_CHECK_INTERVAL
                       + ((MAX_LLM_CHECK_INTERVAL - MIN_LLM_CHECK_INTERVAL)
                            * (1000 - llm.confidence) + 500) \div 1000],
                  FALSE, <<>>)

\* a semantic check that declares a loop at a confidence of 0.9 already
checkForLoopWithLLMFromThreshold(d, llm) ==
  CASE llm.kind \in {"openai", "throws", "no_confidence"} -> Out(d, FALSE, <<>>)
    [] llm.kind = "confidence" ->
         IF llm.confidence >= 900
         THEN Out(d, TRUE, <<LoopDetectedEvent("llm_detected_loop", d)>>)
         ELSE Out([d EXCEPT !.llmCheckInterval =
                     MIN_LLM_CHECK_INTERVAL
                       + ((MAX_LLM_CHECK_INTERVAL - MIN_LLM_CHECK_INTERVAL)
                            * (1000 - llm.confidence) + 500) \div 1000],
                  FALSE, <<>>)

\* checkForLoopWithLLM(signal): with authType 'openai' it returns before the
\* query (llm.kind = "openai"); else it awaits generateJson, and what follows
\* the await runs on the fields as they are when generateJson settles, with
\* llm what it settled with: a rejection (failure or abort), a result without
\* a numeric confidence, or a confidence in 1/1000
checkForLoopWithLLM(d, llm) ==
  CASE llm.kind \in {"openai", "throws", "no_confidence"} -> Out(d, FALSE, <<>>)
    [] llm.kind = "confidence" ->
         IF llm.confidence > 900
         THEN Out(d, TRUE, <<LoopDetectedEvent("llm_detected_loop", d)>>)
         ELSE Out([d EXCEPT !.llmCheckInterval =
                     \* Math.round(MIN + (MAX - MIN) * (1 - confidence))
                     MIN_LLM_CHECK_INTERVAL
                       + ((MAX_LLM_CHECK_INTERVAL - MIN_LLM_CHECK_INTERVAL)
                            * (1000 - llm.confidence) + 500) \div 1000],
                  FALSE, <<>>)

\* a schedule that starts one turn after the activation floor
checkDueAfterFloor(d) ==
  /\ d.turnsInCurrentPrompt > LLM_CHECK_AFTER_TURNS
  /\ d.turnsInCurrentPrompt - d.lastCheckTurn >= d.llmCheckInterval

\* the condition of turnStarted, on the turn count already incremented
checkDue(d) ==
  /\ d.turnsInCurrentPrompt >= LLM_CHECK_AFTER_TURNS
  /\ d.turnsInCurrentPrompt - d.lastCheckTurn >= d.llmCheckInterval

\* turnStarted(signal) up to the point where it returns or awaits
\* generateJson: awaits says that the call is left waiting for the model
turnStarted(d, authType) ==
  LET d1 == [d EXCEPT !.turnsInCurrentPrompt = @ + 1]
      d2 == [d1 EXCEPT !.lastCheckTurn = d1.turnsInCurrentPrompt]
  IN IF ~checkDue(d1) THEN [d |-> d1, awaits |-> FALSE]
     ELSE IF authType = "openai"
     THEN [d |-> checkForLoopWithLLM(d2, [kind |-> "openai"]).d,
           awaits |-> FALSE]
     ELSE [d |-> d2, awaits |-> TRUE]

\* reset(promptId)
reset(d, promptId) ==
  [resetLlmCheckTracking(
     resetContentTracking(
       resetToolCallCount([d EXCEPT !.promptId = promptId])))
   EXCEPT !.loopDetected = FALSE, !.loopRecoveryAttempts = 0]

\* the lists of getLoopRecoveryPrompts
basePrompts ==
  <<"Let me take a step back and approach this differently. What specific aspect should I focus on first?",
    "I notice I might be repeating myself. Can you provide more specific guidance on what you'd like me to do differently?",
    "Let me break this down into smaller, more manageable steps. What's the most important part to address first?">>

toolCallPrompts ==
  <<"I seem to be stuck in a loop with tool calls. Let me try a different approach to this problem.",
    "Instead of repeating the same operations, let me analyze what we've learned so far and adjust my strategy.">>

contentPrompts ==
  <<"I notice I'm generating repetitive content. Let me refocus on providing more specific and actionable information.",
    "Let me restructure my response to be more targeted and avoid repetition.">>

\* suggestions chosen by any repeated tool call
getLoopRecoveryPromptsOnAnyRepeat(d) ==
  IF d.toolCallRepetitionCount >= 2
  THEN basePrompts \o toolCallPrompts
  ELSE basePrompts \o contentPrompts

\* getLoopRecoveryPrompts()
getLoopRecoveryPrompts(d) ==
  IF d.toolCallRepetitionCount >= TOOL_CALL_LOOP_THRESHOLD
  THEN basePrompts \o toolCallPrompts
  ELSE basePrompts \o contentPrompts

\* a budget that allows one attempt more
shouldAttemptAutoRecoveryOnceMore(d) ==
  d.loopRecoveryAttempts <= MAX_RECOVERY_ATTEMPTS

\* shouldAttemptAutoRecovery()
shouldAttemptAutoRecovery(d) == d.loopRecoveryAttempts < MAX_RECOVERY_ATTEMPTS

\* recordRecoveryAttempt()
recordRecoveryAttempt(d) == [d EXCEPT !.loopRecoveryAttempts = @ + 1]

(***************************************************************************)
(* The calls made on the service, and the inputs they are given.           *)
(***************************************************************************)
FENCE == <<BT, BT, BT>>

ABC20 == <<"a", "b", "c", "d", "e", "f", "g", "h", "i", "j",
           "k", "l", "m", "n", "o", "p", "q", "r", "s", "t">>

\* a whole fenced code block in one chunk: the fence, four times the
\* 20-character line, the fence
FENCED_BLOCK == FENCE \o <<NL>> \o Rep(ABC20, 4) \o <<NL>> \o FENCE

A8 == Rep(<<"a">>, 8)

A1001 == Rep(<<"a">>, MAX_HISTORY_LENGTH + 1)

LIST_ITEM == <<"*", " ", "x", NL>>

QUOTES == Rep(BROKEN_QUOTE, 3)

WORD == <<"o", "k", " ">>

ToolCalls ==
  {[name |-> "read_file", args |-> << <<"path", "a">> >>],
   [name |-> "read_file", args |-> << <<"path", "b">> >>]}

ToolCallRequest(toolCall) == [type |-> "tool_call_request", value |-> toolCall]

Content(text) == [type |-> "content", value |-> text]

\* an event of any other GeminiEventType
OtherEvent == [type |-> "thought", value |-> NULL]

LoopEvents ==
  {ToolCallRequest(tc) : tc \in ToolCalls}
    \cup {Content(c) : c \in {A8, WORD, FENCE}}
    \cup {OtherEvent}

ContentEvents ==
  {Content(c) : c \in {ABC20, FENCE, FENCED_BLOCK, A8, A1001, LIST_ITEM,
                       QUOTES, WORD}}

\* long texts that hold no loop: 30 digits, and the 52 letters in a row 10
\* and 20 times (a chunk comes back every 52 characters, too far apart)
DIGITS30 == Rep(<<"0", "1", "2", "3", "4", "5", "6", "7", "8", "9">>, 3)

ALPHA52 ==
  <<"a", "b", "c", "d", "e", "f", "g", "h", "i", "j", "k", "l", "m",
    "n", "o", "p", "q", "r", "s", "t", "u", "v", "w", "x", "y", "z",
    "A", "B", "C", "D", "E", "F", "G", "H", "I", "J", "K", "L", "M",
    "N", "O", "P", "Q", "R", "S", "T", "U", "V", "W", "X", "Y", "Z">>

ALPHA520 == Rep(ALPHA52, 10)

ALPHA1040 == Rep(ALPHA52, 20)

\* one tool call whose args object lists its two keys in either order: two
\* named keys, or two keys that are array indices
ArgsEvents ==
  {ToolCallRequest([name |-> "edit", args |-> a]) :
     a \in { << <<"file", "a">>, <<"line", "1">> >>,
             << <<"line", "1">>, <<"file", "a">> >>,
             << <<"1", "a">>, <<"2", "b">> >>,
             << <<"2", "b">>, <<"1", "a">> >> }}

\* the sentence once to four times in one chunk, and another text
ChantEvents == {Content(Rep(ABC20, k)) : k \in 1..4} \cup {Content(WORD)}

LongEvents == {Content(c) : c \in {DIGITS30, ALPHA520, ALPHA1040, WORD}}

\* a text of 1000 characters that opens with the sentence and holds no loop
ABC20_THEN_980 == ABC20 \o SubSeq(ALPHA1040, 1, MAX_HISTORY_LENGTH - 20)

\* the sentence twice, the 52 letters, and the text of 1000 characters
ChunkEvents == {Content(c) : c \in {Rep(ABC20, 2), ALPHA52, ABC20_THEN_980}}

\* getContentGeneratorConfig().authType
AuthTypes == {"openai", "gemini-api-key"}

\* what generateJson settles with: a rejection, a result without a numeric
\* confidence, or a confidence in 1/1000
LlmOutcomes ==
  {[kind |-> "throws"], [kind |-> "no_confidence"]}
    \cup {[kind |-> "confidence", confidence |-> c] : c \in {0, 500, 900, 950}}

\* ---- history of the prompt ----
startsWithFence(t) == Len(t) >= 3 /\ SubSeq(t, 1, 3) = FENCE

endsWithFence(t) == Len(t) >= 3 /\ SubSeq(t, Len(t) - 2, Len(t)) = FENCE

\* where the text streamed since reset stands with respect to one well-formed
\* fenced code block: nothing streamed yet ("start"), the opening fence
\* streamed and the block not closed ("open"), exactly one whole block
\* streamed ("closed"), or anything else ("broken")
fencedAfter(state, event) ==
  IF event.type = "content"
  THEN LET t == event.value
       IN CASE state = "start" /\ numFences(t) = 2 /\ countChar(t, BT) = 6
                 /\ startsWithFence(t) /\ endsWithFence(t) -> "closed"
            [] state = "start" /\ numFences(t) = 1 /\ countChar(t, BT) = 3
                 /\ startsWithFence(t) -> "open"
            [] state = "open" /\ countChar(t, BT) = 0 -> "open"
            [] state = "open" /\ numFences(t) = 1 /\ countChar(t, BT) = 3
                 /\ endsWithFence(t) -> "closed"
            [] OTHER -> "broken"
  ELSE IF event.type = "tool_call_request" THEN "broken"
  ELSE state

\* two tool calls have the same name and the same arguments: the same keys
\* with the same values, in whatever order the object lists them
sameCall(tc1, tc2) ==
  /\ tc1.name = tc2.name
  /\ SeqToSet(tc1.args) = SeqToSet(tc2.args)

\* the run of identical tool calls fed since reset: identicalCalls counts them
\* (-1 once a Content event or a different tool call came before the fifth),
\* laterEvents counts the events fed after the fifth; afterLoop counts the
\* addAndCheck calls made since reset with loopDetected already set
runAfter(h, event) ==
  IF h.identicalCalls >= TOOL_CALL_LOOP_THRESHOLD
  THEN [h EXCEPT !.laterEvents = @ + 1]
  ELSE IF event.type = "tool_call_request"
  THEN IF \/ h.identicalCalls = 0
          \/ h.identicalCalls > 0 /\ sameCall(h.runCall, event.value)
       THEN [h EXCEPT !.identicalCalls = @ + 1, !.runCall = event.value]
       ELSE [h EXCEPT !.identicalCalls = -1]
  ELSE IF event.type = "content" THEN [h EXCEPT !.identicalCalls = -1]
  ELSE h

\* how many times the sentence ABC20 was fed since reset, in chunks of one
\* to four sentences and nothing else (-1 once another text or a tool call
\* was fed)
chantAfter(n, event) ==
  IF event.type = "content"
  THEN IF n >= 0 /\ \E k \in 1..4 : event.value = Rep(ABC20, k)
       THEN n + Len(event.value) \div Len(ABC20)
       ELSE -1
  ELSE IF event.type = "tool_call_request" THEN -1
  ELSE n

\* the call cut the head of the history: what was there and what came
\* does not fit and the history is left at the cap
truncatedBy(d, event, after) ==
  /\ event.type = "content"
  /\ ~d.loopDetected
  /\ Len(d.streamContentHistory) + Len(event.value) > MAX_HISTORY_LENGTH
  /\ Len(after.streamContentHistory) = MAX_HISTORY_LENGTH

\* the content resets the tracking before it is looked at
resetsTracking(content) ==
  \/ numFences(content) > 0
  \/ hasTable(content)
  \/ hasListItem(content)
  \/ hasHeading(content)
  \/ hasBlockquote(content)

\* the text cut from the head of the history since the tracking was last
\* reset: the history with it in front is all the text tracked since then
droppedAfter(dropped, d, event, after) ==
  IF d.loopDetected THEN dropped
  ELSE IF event.type = "tool_call_request" THEN <<>>
  ELSE IF event.type = "content"
  THEN LET resets == resetsTracking(event.value)
           kept == IF resets THEN <<>> ELSE dropped
           base == IF resets THEN <<>> ELSE d.streamContentHistory
           whole == base \o event.value
       IN IF d.inCodeBlock \/ after.inCodeBlock THEN kept
          ELSE kept \o SubSeq(whole, 1,
                              Len(whole) - Len(after.streamContentHistory))
  ELSE dropped

NewHistory ==
  [prompts |-> 0, calls |-> 0, turnCalls |-> 0, recoveryCalls |-> 0,
   identicalCalls |-> 0, runCall |-> NULL, laterEvents |-> 0,
   afterLoop |-> 0, truncations |-> 0, chant |-> 0, fenced |-> "start",
   lastCheck |-> 0, guarded |-> TRUE, trippedOn |-> {}, dropped |-> <<>>]

\* a gate that is never used
GateIdle ==
  /\ activeRequests = {}
  /\ requestQueue = <<>>
  /\ config = [maxConcurrentRequests |-> 1, adaptiveThrottling |-> FALSE]
  /\ performanceMetrics =
       [averageResponseTime |-> Zero, errorRate |-> Zero, queueWaitTimes |-> 0]
  /\ promise = [id \in RequestIds |-> "unsubmitted"]
  /\ work = [id \in RequestIds |-> "notstarted"]
  /\ timer = [id \in RequestIds |-> FALSE]
  /\ signal = [id \in RequestIds |-> "none"]
  /\ gateHistory = [undisturbed |-> TRUE, configUpdates |-> 0,
                    limitLowered |-> FALSE, rejectedQueued |-> {},
                    abortedQueued |-> {},
                    maxLimitSeen |-> 1]

\* the service as constructed, or after turnStarted was called on it
\* LLM_CHECK_AFTER_TURNS - 1 times and nothing else (no check is due before
\* the turn LLM_CHECK_AFTER_TURNS)
LoopInit ==
  /\ detector \in {NewDetector,
                   [NewDetector EXCEPT
                      !.turnsInCurrentPrompt = LLM_CHECK_AFTER_TURNS - 1]}
  /\ returned = [op |-> "constructor", value |-> NULL]
  /\ telemetry = <<>>
  /\ loopHistory = NewHistory
  /\ pendingChecks = 0

\* addAndCheck(event), at most maxEvents of them in a prompt; the text cut
\* from the history is kept in the history of the prompt if keepDropped
AddAndCheckKeeping(event, maxEvents, keepDropped) ==
  /\ loopHistory.calls < maxEvents
  /\ LET r == addAndCheck(detector, event)
     IN /\ detector' = r.d
        /\ returned' = [op |-> "addAndCheck", thrown |-> r.thrown,
                        value |-> IF r.thrown THEN NULL ELSE r.ret]
        /\ telemetry' = telemetry \o r.log
        /\ loopHistory' =
             [runAfter(loopHistory, event) EXCEPT
                !.calls = @ + 1,
                !.afterLoop = IF detector.loopDetected THEN @ + 1 ELSE @,
                !.truncations = IF truncatedBy(detector, event, r.d)
                                THEN @ + 1 ELSE @,
                !.chant = chantAfter(@, event),
                !.fenced = fencedAfter(@, event),
                !.dropped = IF keepDropped
                            THEN droppedAfter(@, detector, event, r.d) ELSE @,
                \* the kind of event on which a loop was detected
                !.trippedOn = IF ~detector.loopDetected /\ r.ret
                              THEN @ \cup {event.type} ELSE @]
  /\ UNCHANGED <<pendingChecks, gateVars>>

\* addAndCheck(event), at most maxEvents of them in a prompt
AddAndCheck(event, maxEvents) == AddAndCheckKeeping(event, maxEvents, FALSE)

\* turnStarted(signal), at most maxTurns of them in a prompt, up to the
\* point where the call returns or awaits generateJson: the turn that enters
\* no check and the check skipped for authType 'openai' resolve false, the
\* check that queries the model leaves the call pending
TurnStarted(authType, maxTurns) ==
  /\ loopHistory.turnCalls < maxTurns
  /\ LET r == turnStarted(detector, authType)
         due == checkDue([detector EXCEPT !.turnsInCurrentPrompt = @ + 1])
     IN /\ r.awaits => pendingChecks < MaxPendingChecks
        /\ detector' = r.d
        /\ pendingChecks' = IF r.awaits THEN pendingChecks + 1
                            ELSE pendingChecks
        /\ returned' = [op |-> "turnStarted",
                        check |-> IF ~due THEN "none"
                                  ELSE IF r.awaits THEN "query" ELSE "skipped",
                        value |-> IF r.awaits THEN NULL ELSE FALSE]
        /\ loopHistory' =
             [loopHistory EXCEPT
                !.turnCalls = @ + 1,
                !.lastCheck = IF due THEN loopHistory.turnCalls + 1 ELSE @]
  /\ UNCHANGED <<telemetry, gateVars>>

\* generateJson settles with llm and a pending call of turnStarted runs on,
\* through the end of checkForLoopWithLLM, to what it resolves to
GenerateJsonSettled(llm) ==
  /\ pendingChecks > 0
  /\ LET r == checkForLoopWithLLM(detector, llm)
     IN /\ detector' = r.d
        /\ pendingChecks' = pendingChecks - 1
        /\ returned' = [op |-> "generateJson", check |-> llm.kind,
                        value |-> r.ret]
        /\ telemetry' = telemetry \o r.log
        /\ loopHistory' =
             [loopHistory EXCEPT
                !.trippedOn = IF r.ret THEN @ \cup {"turn"} ELSE @]
  /\ UNCHANGED gateVars

\* the prompt ids handed to reset, in order
PromptIds == <<"prompt-1", "prompt-2", "prompt-3", "prompt-4">>

\* reset(promptId), at most maxPrompts of them
Reset(maxPrompts) ==
  /\ loopHistory.prompts < Min2(maxPrompts, Len(PromptIds))
  /\ detector' = reset(detector, PromptIds[loopHistory.prompts + 1])
  /\ returned' = [op |-> "reset", value |-> NULL]
  /\ loopHistory' = [NewHistory EXCEPT !.prompts = loopHistory.prompts + 1]
  /\ UNCHANGED <<telemetry, pendingChecks, gateVars>>

\* recordRecoveryAttempt()
RecordRecoveryAttempt(maxCalls) ==
  /\ loopHistory.recoveryCalls < maxCalls
  /\ detector' = recordRecoveryAttempt(detector)
  /\ returned' = [op |-> "recordRecoveryAttempt", value |-> NULL]
  /\ loopHistory' =
       [loopHistory EXCEPT
          !.recoveryCalls = @ + 1,
          \* the caller asked first, and was told to go ahead
          !.guarded = @ /\ returned.op = "shouldAttemptAutoRecovery"
                        /\ returned.value = TRUE]
  /\ UNCHANGED <<telemetry, pendingChecks, gateVars>>

\* getLoopRecoveryPrompts()
GetLoopRecoveryPrompts ==
  /\ returned' = [op |-> "getLoopRecoveryPrompts",
                  value |-> getLoopRecoveryPrompts(detector)]
  /\ UNCHANGED <<detector, telemetry, loopHistory, pendingChecks, gateVars>>

\* shouldAttemptAutoRecovery()
ShouldAttemptAutoRecovery ==
  /\ returned' = [op |-> "shouldAttemptAutoRecovery",
                  value |-> shouldAttemptAutoRecovery(detector)]
  /\ UNCHANGED <<detector, telemetry, loopHistory, pendingChecks, gateVars>>

LoopNext ==
  \/ \E e \in LoopEvents : AddAndCheck(e, MaxEvents)
  \/ \E a \in AuthTypes : TurnStarted(a, MaxTurnCalls)
  \/ \E llm \in LlmOutcomes : GenerateJsonSettled(llm)
  \/ Reset(MaxPrompts)
  \/ RecordRecoveryAttempt(MaxRecoveryCalls)

ContentNext ==
  \/ \E e \in ContentEvents : AddAndCheck(e, MaxContentEvents)
  \/ Reset(MaxPrompts)

ArgsNext ==
  \/ \E e \in ArgsEvents : AddAndCheck(e, MaxArgsEvents)
  \/ Reset(MaxPrompts)

ChantNext ==
  \/ \E e \in ChantEvents : AddAndCheck(e, MaxChantEvents)
  \/ Reset(MaxPrompts)

LongNext ==
  \/ \E e \in LongEvents : AddAndCheck(e, MaxLongEvents)
  \/ Reset(MaxPrompts)

\* the events streamed between the turns of a long prompt
TurnEvents ==
  {ToolCallRequest([name |-> "read_file", args |-> << <<"path", "a">> >>]),
   Content(WORD)}

\* two tool calls, a repetitive text and a plain one
PromptEvents ==
  {ToolCallRequest(tc) : tc \in ToolCalls} \cup {Content(A8), Content(WORD)}

PromptsNext ==
  \/ GetLoopRecoveryPrompts
  \/ \E e \in PromptEvents : AddAndCheck(e, MaxPromptEvents)
  \/ \E a \in AuthTypes : TurnStarted(a, MaxTurnCalls)
  \/ \E llm \in LlmOutcomes : GenerateJsonSettled(llm)
  \/ Reset(MaxPrompts)

\* a tool call, a tool call whose args refer to themselves, a plain text
ThrowEvents ==
  {ToolCallRequest([name |-> "read_file", args |-> << <<"path", "a">> >>]),
   ToolCallRequest([name |-> "read_file",
                    args |-> << <<"path", "a">>, <<"self", SELF>> >>]),
   Content(WORD)}

ThrowNext ==
  \/ \E e \in ThrowEvents : AddAndCheck(e, MaxThrowEvents)
  \/ Reset(MaxPrompts)

ChunkNext ==
  \/ \E e \in ChunkEvents : AddAndCheckKeeping(e, MaxChunkEvents, TRUE)
  \/ Reset(MaxPrompts)

\* one tool call, the sentence and an event of another type
MixEvents ==
  {ToolCallRequest([name |-> "read_file", args |-> << <<"path", "a">> >>]),
   Content(ABC20), OtherEvent}

MixNext ==
  \/ \E e \in MixEvents : AddAndCheck(e, MaxMixEvents)
  \/ Reset(MaxPrompts)

\* results of generateJson with a numeric confidence, in 1/1000: every
\* twentieth from 0 to 1
ConfidenceOutcomes ==
  {[kind |-> "confidence", confidence |-> 50 * k] : k \in 0..20}

IntervalNext ==
  \/ TurnStarted("gemini-api-key", MaxIntervalTurns)
  \/ \E llm \in ConfidenceOutcomes : GenerateJsonSettled(llm)
  \/ Reset(MaxPrompts)

\* pieces of plain text: four times the same letter, a word, the sentence
\* twice
SplitEvents ==
  {Content(c) : c \in {Rep(<<"a">>, 4), WORD, Rep(ABC20, 2)}}

SplitNext ==
  \/ \E e \in SplitEvents : AddAndCheckKeeping(e, MaxSplitEvents, TRUE)
  \/ Reset(MaxPrompts)

RecoveryNext ==
  \/ ShouldAttemptAutoRecovery
  \/ RecordRecoveryAttempt(MaxRecoveries)
  \/ \E e \in TurnEvents : AddAndCheck(e, MaxRecoveryEvents)
  \/ \E a \in AuthTypes : TurnStarted(a, MaxTurnCalls)
  \/ \E llm \in LlmOutcomes : GenerateJsonSettled(llm)
  \/ Reset(MaxPrompts)

TurnNext ==
  \/ \E a \in AuthTypes : TurnStarted(a, MaxTurns)
  \/ \E llm \in LlmOutcomes : GenerateJsonSettled(llm)
  \/ \E e \in TurnEvents : AddAndCheck(e, MaxTurnEvents)
  \/ Reset(MaxPrompts)

(***************************************************************************)
(* ---------------------- Local-backend classification ------------------- *)
(***************************************************************************)
\* strings are sequences of characters; an optional argument or environment
\* variable is a record that says whether it is defined
Undefined == [defined |-> FALSE, text |-> <<>>]

Str(text) == [defined |-> TRUE, text |-> text]

\* JavaScript truthiness of an optional string: defined and not empty
truthy(a) == a.defined /\ a.text # <<>>

\* a string is the sequence of its UTF-16 code units; a code unit outside
\* ASCII is written as its code point, "U+" and four hexadecimal digits
UPPER == <<"A", "B", "C", "D", "E", "F", "G", "H", "I", "J", "K", "L", "M",
           "N", "O", "P", "Q", "R", "S", "T", "U", "V", "W", "X", "Y", "Z">>

LOWER == <<"a", "b", "c", "d", "e", "f", "g", "h", "i", "j", "k", "l", "m",
           "n", "o", "p", "q", "r", "s", "t", "u", "v", "w", "x", "y", "z">>

HEX == "0123456789ABCDEF"

\* the code unit that c writes as "U+hhhh", or -1 for an ASCII character
codeUnit(c) ==
  IF Len(c) = 6 /\ SubSeq(c, 1, 2) = "U+"
  THEN LET h(i) == (CHOOSE k \in 1..16 : SubSeq(HEX, k, k) = SubSeq(c, i, i)) - 1
       IN 4096 * h(3) + 256 * h(4) + 16 * h(5) + h(6)
  ELSE -1

\* the code units of a code point from U+0080 up, or of an ASCII small letter
fromCodePoint(cp) ==
  LET h(n) == SubSeq(HEX, n + 1, n + 1)
      unit(u) == "U+" \o h(u \div 4096) \o h((u \div 256) % 16)
                      \o h((u \div 16) % 16) \o h(u % 16)
  IN IF cp < 128 THEN <<LOWER[cp - 96]>>
     ELSE IF cp < 65536 THEN <<unit(cp)>>
     ELSE <<unit(55296 + (cp - 65536) \div 1024),
            unit(56320 + ((cp - 65536) % 1024))>>

\* the lower-case mapping of the code points from U+0080 up, as UnicodeData
\* gives it (Unicode 17): <<first, last, step, delta>> says that the code
\* points first, first + step, ..., last map to themselves plus delta
LOWER_RANGES ==
  <<<<192, 214, 1, 32>>, <<216, 222, 1, 32>>, <<256, 302, 2, 1>>,
    <<306, 310, 2, 1>>, <<313, 327, 2, 1>>, <<330, 374, 2, 1>>,
    <<376, 376, 1, -121>>, <<377, 381, 2, 1>>, <<385, 385, 1, 210>>,
    <<386, 388, 2, 1>>, <<390, 390, 1, 206>>, <<391, 391, 1, 1>>,
    <<393, 394, 1, 205>>, <<395, 395, 1, 1>>, <<398, 398, 1, 79>>,
    <<399, 399, 1, 202>>, <<400, 400, 1, 203>>, <<401, 401, 1, 1>>,
    <<403, 403, 1, 205>>, <<404, 404, 1, 207>>, <<406, 406, 1, 211>>,
    <<407, 407, 1, 209>>, <<408, 408, 1, 1>>, <<412, 412, 1, 211>>,
    <<413, 413, 1, 213>>, <<415, 415, 1, 214>>, <<416, 420, 2, 1>>,
    <<422, 422, 1, 218>>, <<423, 423, 1, 1>>, <<425, 425, 1, 218>>,
    <<428, 428, 1, 1>>, <<430, 430, 1, 218>>, <<431, 431, 1, 1>>,
    <<433, 434, 1, 217>>, <<435, 437, 2, 1>>, <<439, 439, 1, 219>>,
    <<440, 440, 1, 1>>, <<444, 444, 1, 1>>, <<452, 452, 1, 2>>,
    <<453, 453, 1, 1>>, <<455, 455, 1, 2>>, <<456, 456, 1, 1>>,
    <<458, 458, 1, 2>>, <<459, 475, 2, 1>>, <<478, 494, 2, 1>>,
    <<497, 497, 1, 2>>, <<498, 500, 2, 1>>, <<502, 502, 1, -97>>,
    <<503, 503, 1, -56>>, <<504, 542, 2, 1>>, <<544, 544, 1, -130>>,
    <<546, 562, 2, 1>>, <<570, 570, 1, 10795>>, <<571, 571, 1, 1>>,
    <<573, 573, 1, -163>>, <<574, 574, 1, 10792>>, <<577, 577, 1, 1>>,
    <<579, 579, 1, -195>>, <<580, 580, 1, 69>>, <<581, 581, 1, 71>>,
    <<582, 590, 2, 1>>, <<880, 882, 2, 1>>, <<886, 886, 1, 1>>,
    <<895, 895, 1, 116>>, <<902, 902, 1, 38>>, <<904, 906, 1, 37>>,
    <<908, 908, 1, 64>>, <<910, 911, 1, 63>>, <<913, 929, 1, 32>>,
    <<931, 939, 1, 32>>, <<975, 975, 1, 8>>, <<984, 1006, 2, 1>>,
    <<1012, 1012, 1, -60>>, <<1015, 1015, 1, 1>>, <<1017, 1017, 1, -7>>,
    <<1018, 1018, 1, 1>>, <<1021, 1023, 1, -130>>, <<1024, 1039, 1, 80>>,
    <<1040, 1071, 1, 32>>, <<1120, 1152, 2, 1>>, <<1162, 1214, 2, 1>>,
    <<1216, 1216, 1, 15>>, <<1217, 1229, 2, 1>>, <<1232, 1326, 2, 1>>,
    <<1329, 1366, 1, 48>>, <<4256, 4293, 1, 7264>>, <<4295, 4295, 1, 7264>>,
    <<4301, 4301, 1, 7264>>, <<5024, 5103, 1, 38864>>, <<5104, 5109, 1, 8>>,
    <<7305, 7305, 1, 1>>, <<7312, 7354, 1, -3008>>, <<7357, 7359, 1, -3008>>,
    <<7680, 7828, 2, 1>>, <<7838, 7838, 1, -7615>>, <<7840, 7934, 2, 1>>,
    <<7944, 7951, 1, -8>>, <<7960, 7965, 1, -8>>, <<7976, 7983, 1, -8>>,
    <<7992, 7999, 1, -8>>, <<8008, 8013, 1, -8>>, <<8025, 8031, 2, -8>>,
    <<8040, 8047, 1, -8>>, <<8072, 8079, 1, -8>>, <<8088, 8095, 1, -8>>,
    <<8104, 8111, 1, -8>>, <<8120, 8121, 1, -8>>, <<8122, 8123, 1, -74>>,
    <<8124, 8124, 1, -9>>, <<8136, 8139, 1, -86>>, <<8140, 8140, 1, -9>>,
    <<8152, 8153, 1, -8>>, <<8154, 8155, 1, -100>>, <<8168, 8169, 1, -8>>,
    <<8170, 8171, 1, -112>>, <<8172, 8172, 1, -7>>, <<8184, 8185, 1, -128>>,
    <<8186, 8187, 1, -126>>, <<8188, 8188, 1, -9>>, <<8486, 8486, 1, -7517>>,
    <<8490, 8490, 1, -8383>>, <<8491, 8491, 1, -8262>>, <<8498, 8498, 1, 28>>,
    <<8544, 8559, 1, 16>>, <<8579, 8579, 1, 1>>, <<9398, 9423, 1, 26>>,
    <<11264, 11311, 1, 48>>, <<11360, 11360, 1, 1>>,
    <<11362, 11362, 1, -10743>>, <<11363, 11363, 1, -3814>>,
    <<11364, 11364, 1, -10727>>, <<11367, 11371, 2, 1>>,
    <<11373, 11373, 1, -10780>>, <<11374, 11374, 1, -10749>>,
    <<11375, 11375, 1, -10783>>, <<11376, 11376, 1, -10782>>,
    <<11378, 11378, 1, 1>>, <<11381, 11381, 1, 1>>,
    <<11390, 11391, 1, -10815>>, <<11392, 11490, 2, 1>>,
    <<11499, 11501, 2, 1>>, <<11506, 11506, 1, 1>>, <<42560, 42604, 2, 1>>,
    <<42624, 42650, 2, 1>>, <<42786, 42798, 2, 1>>, <<42802, 42862, 2, 1>>,
    <<42873, 42875, 2, 1>>, <<42877, 42877, 1, -35332>>,
    <<42878, 42886, 2, 1>>, <<42891, 42891, 1, 1>>,
    <<42893, 42893, 1, -42280>>, <<42896, 42898, 2, 1>>,
    <<42902, 42920, 2, 1>>, <<42922, 42922, 1, -42308>>,
    <<42923, 42923, 1, -42319>>, <<42924, 42924, 1, -42315>>,
    <<42925, 42925, 1, -42305>>, <<42926, 42926, 1, -42308>>,
    <<42928, 42928, 1, -42258>>, <<42929, 42929, 1, -42282>>,
    <<42930, 42930, 1, -42261>>, <<42931, 42931, 1, 928>>,
    <<42932, 42946, 2, 1>>, <<42948, 42948, 1, -48>>,
    <<42949, 42949, 1, -42307>>, <<42950, 42950, 1, -35384>>,
    <<42951, 42953, 2, 1>>, <<42955, 42955, 1, -42343>>,
    <<42956, 42956, 1, 1>>, <<42958, 42958, 1, 1>>, <<42960, 42960, 1, 1>>,
    <<42962, 42962, 1, 1>>, <<42964, 42964, 1, 1>>, <<42966, 42968, 2, 1>>,
    <<42970, 42970, 1, 1>>, <<42972, 42972, 1, -42561>>,
    <<42997, 42997, 1, 1>>, <<65313, 65338, 1, 32>>, <<66560, 66599, 1, 40>>,
    <<66736, 66771, 1, 40>>, <<66928, 66938, 1, 39>>, <<66940, 66954, 1, 39>>,
    <<66956, 66962, 1, 39>>, <<66964, 66965, 1, 39>>, <<68736, 68786, 1, 64>>,
    <<68944, 68965, 1, 32>>, <<71840, 71871, 1, 32>>, <<93760, 93791, 1, 32>>,
    <<93856, 93880, 1, 27>>, <<125184, 125217, 1, 34>>>>

\* the code points from U+0080 up that have the property Cased and not the
\* property Case_Ignorable (Unicode 17), as <<first, last>>
CASED_RANGES ==
  <<<<170, 170>>, <<181, 181>>, <<186, 186>>, <<192, 214>>, <<216, 246>>,
    <<248, 442>>, <<444, 447>>, <<452, 659>>, <<662, 687>>, <<880, 883>>,
    <<886, 887>>, <<891, 893>>, <<895, 895>>, <<902, 902>>, <<904, 906>>,
    <<908, 908>>, <<910, 929>>, <<931, 1013>>, <<1015, 1153>>, <<1162, 1327>>,
    <<1329, 1366>>, <<1376, 1416>>, <<4256, 4293>>, <<4295, 4295>>,
    <<4301, 4301>>, <<4304, 4346>>, <<4349, 4351>>, <<5024, 5109>>,
    <<5112, 5117>>, <<7296, 7306>>, <<7312, 7354>>, <<7357, 7359>>,
    <<7424, 7467>>, <<7531, 7543>>, <<7545, 7578>>, <<7680, 7957>>,
    <<7960, 7965>>, <<7968, 8005>>, <<8008, 8013>>, <<8016, 8023>>,
    <<8025, 8025>>, <<8027, 8027>>, <<8029, 8029>>, <<8031, 8061>>,
    <<8064, 8116>>, <<8118, 8124>>, <<8126, 8126>>, <<8130, 8132>>,
    <<8134, 8140>>, <<8144, 8147>>, <<8150, 8155>>, <<8160, 8172>>,
    <<8178, 8180>>, <<8182, 8188>>, <<8450, 8450>>, <<8455, 8455>>,
    <<8458, 8467>>, <<8469, 8469>>, <<8473, 8477>>, <<8484, 8484>>,
    <<8486, 8486>>, <<8488, 8488>>, <<8490, 8493>>, <<8495, 8500>>,
    <<8505, 8505>>, <<8508, 8511>>, <<8517, 8521>>, <<8526, 8526>>,
    <<8544, 8575>>, <<8579, 8580>>, <<9398, 9449>>, <<11264, 11387>>,
    <<11390, 11492>>, <<11499, 11502>>, <<11506, 11507>>, <<11520, 11557>>,
    <<11559, 11559>>, <<11565, 11565>>, <<42560, 42605>>, <<42624, 42651>>,
    <<42786, 42863>>, <<42865, 42887>>, <<42891, 42894>>, <<42896, 42972>>,
    <<42997, 42998>>, <<43002, 43002>>, <<43824, 43866>>, <<43872, 43880>>,
    <<43888, 43967>>, <<64256, 64262>>, <<64275, 64279>>, <<65313, 65338>>,
    <<65345, 65370>>, <<66560, 66639>>, <<66736, 66771>>, <<66776, 66811>>,
    <<66928, 66938>>, <<66940, 66954>>, <<66956, 66962>>, <<66964, 66965>>,
    <<66967, 66977>>, <<66979, 66993>>, <<66995, 67001>>, <<67003, 67004>>,
    <<68736, 68786>>, <<68800, 68850>>, <<68944, 68965>>, <<68976, 68997>>,
    <<71840, 71903>>, <<93760, 93823>>, <<93856, 93880>>, <<93883, 93907>>,
    <<119808, 119892>>, <<119894, 119964>>, <<119966, 119967>>,
    <<119970, 119970>>, <<119973, 119974>>, <<119977, 119980>>,
    <<119982, 119993>>, <<119995, 119995>>, <<119997, 120003>>,
    <<120005, 120069>>, <<120071, 120074>>, <<120077, 120084>>,
    <<120086, 120092>>, <<120094, 120121>>, <<120123, 120126>>,
    <<120128, 120132>>, <<120134, 120134>>, <<120138, 120144>>,
    <<120146, 120485>>, <<120488, 120512>>, <<120514, 120538>>,
    <<120540, 120570>>, <<120572, 120596>>, <<120598, 120628>>,
    <<120630, 120654>>, <<120656, 120686>>, <<120688, 120712>>,
    <<120714, 120744>>, <<120746, 120770>>, <<120772, 120779>>,
    <<122624, 122633>>, <<122635, 122654>>, <<122661, 122666>>,
    <<125184, 125251>>, <<127280, 127305>>, <<127312, 127337>>,
    <<127344, 127369>>>>

\* the code points from U+0080 up that have the property Case_Ignorable
\* (Unicode 17), as <<first, last>>
CASE_IGNORABLE_RANGES ==
  <<<<168, 168>>, <<173, 173>>, <<175, 175>>, <<180, 180>>, <<183, 184>>,
    <<688, 879>>, <<884, 885>>, <<890, 890>>, <<900, 901>>, <<903, 903>>,
    <<1155, 1161>>, <<1369, 1369>>, <<1375, 1375>>, <<1425, 1469>>,
    <<1471, 1471>>, <<1473, 1474>>, <<1476, 1477>>, <<1479, 1479>>,
    <<1524, 1524>>, <<1536, 1541>>, <<1552, 1562>>, <<1564, 1564>>,
    <<1600, 1600>>, <<1611, 1631>>, <<1648, 1648>>, <<1750, 1757>>,
    <<1759, 1768>>, <<1770, 1773>>, <<1807, 1807>>, <<1809, 1809>>,
    <<1840, 1866>>, <<1958, 1968>>, <<2027, 2037>>, <<2042, 2042>>,
    <<2045, 2045>>, <<2070, 2093>>, <<2137, 2139>>, <<2184, 2184>>,
    <<2192, 2193>>, <<2199, 2207>>, <<2249, 2306>>, <<2362, 2362>>,
    <<2364, 2364>>, <<2369, 2376>>, <<2381, 2381>>, <<2385, 2391>>,
    <<2402, 2403>>, <<2417, 2417>>, <<2433, 2433>>, <<2492, 2492>>,
    <<2497, 2500>>, <<2509, 2509>>, <<2530, 2531>>, <<2558, 2558>>,
    <<2561, 2562>>, <<2620, 2620>>, <<2625, 2626>>, <<2631, 2632>>,
    <<2635, 2637>>, <<2641, 2641>>, <<2672, 2673>>, <<2677, 2677>>,
    <<2689, 2690>>, <<2748, 2748>>, <<2753, 2757>>, <<2759, 2760>>,
    <<2765, 2765>>, <<2786, 2787>>, <<2810, 2815>>, <<2817, 2817>>,
    <<2876, 2876>>, <<2879, 2879>>, <<2881, 2884>>, <<2893, 2893>>,
    <<2901, 2902>>, <<2914, 2915>>, <<2946, 2946>>, <<3008, 3008>>,
    <<3021, 3021>>, <<3072, 3072>>, <<3076, 3076>>, <<3132, 3132>>,
    <<3134, 3136>>, <<3142, 3144>>, <<3146, 3149>>, <<3157, 3158>>,
    <<3170, 3171>>, <<3201, 3201>>, <<3260, 3260>>, <<3263, 3263>>,
    <<3270, 3270>>, <<3276, 3277>>, <<3298, 3299>>, <<3328, 3329>>,
    <<3387, 3388>>, <<3393, 3396>>, <<3405, 3405>>, <<3426, 3427>>,
    <<3457, 3457>>, <<3530, 3530>>, <<3538, 3540>>, <<3542, 3542>>,
    <<3633, 3633>>, <<3636, 3642>>, <<3654, 3662>>, <<3761, 3761>>,
    <<3764, 3772>>, <<3782, 3782>>, <<3784, 3790>>, <<3864, 3865>>,
    <<3893, 3893>>, <<3895, 3895>>, <<3897, 3897>>, <<3953, 3966>>,
    <<3968, 3972>>, <<3974, 3975>>, <<3981, 3991>>, <<3993, 4028>>,
    <<4038, 4038>>, <<4141, 4144>>, <<4146, 4151>>, <<4153, 4154>>,
    <<4157, 4158>>, <<4184, 4185>>, <<4190, 4192>>, <<4209, 4212>>,
    <<4226, 4226>>, <<4229, 4230>>, <<4237, 4237>>, <<4253, 4253>>,
    <<4348, 4348>>, <<4957, 4959>>, <<5906, 5908>>, <<5938, 5939>>,
    <<5970, 5971>>, <<6002, 6003>>, <<6068, 6069>>, <<6071, 6077>>,
    <<6086, 6086>>, <<6089, 6099>>, <<6103, 6103>>, <<6109, 6109>>,
    <<6155, 6159>>, <<6211, 6211>>, <<6277, 6278>>, <<6313, 6313>>,
    <<6432, 6434>>, <<6439, 6440>>, <<6450, 6450>>, <<6457, 6459>>,
    <<6679, 6680>>, <<6683, 6683>>, <<6742, 6742>>, <<6744, 6750>>,
    <<6752, 6752>>, <<6754, 6754>>, <<6757, 6764>>, <<6771, 6780>>,
    <<6783, 6783>>, <<6823, 6823>>, <<6832, 6877>>, <<6880, 6891>>,
    <<6912, 6915>>, <<6964, 6964>>, <<6966, 6970>>, <<6972, 6972>>,
    <<6978, 6978>>, <<7019, 7027>>, <<7040, 7041>>, <<7074, 7077>>,
    <<7080, 7081>>, <<7083, 7085>>, <<7142, 7142>>, <<7144, 7145>>,
    <<7149, 7149>>, <<7151, 7153>>, <<7212, 7219>>, <<7222, 7223>>,
    <<7288, 7293>>, <<7376, 7378>>, <<7380, 7392>>, <<7394, 7400>>,
    <<7405, 7405>>, <<7412, 7412>>, <<7416, 7417>>, <<7468, 7530>>,
    <<7544, 7544>>, <<7579, 7679>>, <<8125, 8125>>, <<8127, 8129>>,
    <<8141, 8143>>, <<8157, 8159>>, <<8173, 8175>>, <<8189, 8190>>,
    <<8203, 8207>>, <<8216, 8217>>, <<8228, 8228>>, <<8231, 8231>>,
    <<8234, 8238>>, <<8288, 8292>>, <<8294, 8303>>, <<8305, 8305>>,
    <<8319, 8319>>, <<8336, 8348>>, <<8400, 8432>>, <<11388, 11389>>,
    <<11503, 11505>>, <<11631, 11631>>, <<11647, 11647>>, <<11744, 11775>>,
    <<11823, 11823>>, <<12293, 12293>>, <<12330, 12333>>, <<12337, 12341>>,
    <<12347, 12347>>, <<12441, 12446>>, <<12540, 12542>>, <<40981, 40981>>,
    <<42232, 42237>>, <<42508, 42508>>, <<42607, 42610>>, <<42612, 42621>>,
    <<42623, 42623>>, <<42652, 42655>>, <<42736, 42737>>, <<42752, 42785>>,
    <<42864, 42864>>, <<42888, 42890>>, <<42993, 42996>>, <<43000, 43001>>,
    <<43010, 43010>>, <<43014, 43014>>, <<43019, 43019>>, <<43045, 43046>>,
    <<43052, 43052>>, <<43204, 43205>>, <<43232, 43249>>, <<43263, 43263>>,
    <<43302, 43309>>, <<43335, 43345>>, <<43392, 43394>>, <<43443, 43443>>,
    <<43446, 43449>>, <<43452, 43453>>, <<43471, 43471>>, <<43493, 43494>>,
    <<43561, 43566>>, <<43569, 43570>>, <<43573, 43574>>, <<43587, 43587>>,
    <<43596, 43596>>, <<43632, 43632>>, <<43644, 43644>>, <<43696, 43696>>,
    <<43698, 43700>>, <<43703, 43704>>, <<43710, 43711>>, <<43713, 43713>>,
    <<43741, 43741>>, <<43756, 43757>>, <<43763, 43764>>, <<43766, 43766>>,
    <<43867, 43871>>, <<43881, 43883>>, <<44005, 44005>>, <<44008, 44008>>,
    <<44013, 44013>>, <<64286, 64286>>, <<64434, 64450>>, <<65024, 65039>>,
    <<65043, 65043>>, <<65056, 65071>>, <<65106, 65106>>, <<65109, 65109>>,
    <<65279, 65279>>, <<65287, 65287>>, <<65294, 65294>>, <<65306, 65306>>,
    <<65342, 65342>>, <<65344, 65344>>, <<65392, 65392>>, <<65438, 65439>>,
    <<65507, 65507>>, <<65529, 65531>>, <<66045, 66045>>, <<66272, 66272>>,
    <<66422, 66426>>, <<67456, 67461>>, <<67463, 67504>>, <<67506, 67514>>,
    <<68097, 68099>>, <<68101, 68102>>, <<68108, 68111>>, <<68152, 68154>>,
    <<68159, 68159>>, <<68325, 68326>>, <<68900, 68903>>, <<68942, 68942>>,
    <<68969, 68973>>, <<68975, 68975>>, <<69291, 69292>>, <<69317, 69317>>,
    <<69370, 69375>>, <<69446, 69456>>, <<69506, 69509>>, <<69633, 69633>>,
    <<69688, 69702>>, <<69744, 69744>>, <<69747, 69748>>, <<69759, 69761>>,
    <<69811, 69814>>, <<69817, 69818>>, <<69821, 69821>>, <<69826, 69826>>,
    <<69837, 69837>>, <<69888, 69890>>, <<69927, 69931>>, <<69933, 69940>>,
    <<70003, 70003>>, <<70016, 70017>>, <<70070, 70078>>, <<70089, 70092>>,
    <<70095, 70095>>, <<70191, 70193>>, <<70196, 70196>>, <<70198, 70199>>,
    <<70206, 70206>>, <<70209, 70209>>, <<70367, 70367>>, <<70371, 70378>>,
    <<70400, 70401>>, <<70459, 70460>>, <<70464, 70464>>, <<70502, 70508>>,
    <<70512, 70516>>, <<70587, 70592>>, <<70606, 70606>>, <<70608, 70608>>,
    <<70610, 70610>>, <<70625, 70626>>, <<70712, 70719>>, <<70722, 70724>>,
    <<70726, 70726>>, <<70750, 70750>>, <<70835, 70840>>, <<70842, 70842>>,
    <<70847, 70848>>, <<70850, 70851>>, <<71090, 71093>>, <<71100, 71101>>,
    <<71103, 71104>>, <<71132, 71133>>, <<71219, 71226>>, <<71229, 71229>>,
    <<71231, 71232>>, <<71339, 71339>>, <<71341, 71341>>, <<71344, 71349>>,
    <<71351, 71351>>, <<71453, 71453>>, <<71455, 71455>>, <<71458, 71461>>,
    <<71463, 71467>>, <<71727, 71735>>, <<71737, 71738>>, <<71995, 71996>>,
    <<71998, 71998>>, <<72003, 72003>>, <<72148, 72151>>, <<72154, 72155>>,
    <<72160, 72160>>, <<72193, 72202>>, <<72243, 72248>>, <<72251, 72254>>,
    <<72263, 72263>>, <<72273, 72278>>, <<72281, 72283>>, <<72330, 72342>>,
    <<72344, 72345>>, <<72544, 72544>>, <<72546, 72548>>, <<72550, 72550>>,
    <<72752, 72758>>, <<72760, 72765>>, <<72767, 72767>>, <<72850, 72871>>,
    <<72874, 72880>>, <<72882, 72883>>, <<72885, 72886>>, <<73009, 73014>>,
    <<73018, 73018>>, <<73020, 73021>>, <<73023, 73029>>, <<73031, 73031>>,
    <<73104, 73105>>, <<73109, 73109>>, <<73111, 73111>>, <<73177, 73177>>,
    <<73459, 73460>>, <<73472, 73473>>, <<73526, 73530>>, <<73536, 73536>>,
    <<73538, 73538>>, <<73562, 73562>>, <<78896, 78912>>, <<78919, 78933>>,
    <<90398, 90409>>, <<90413, 90415>>, <<92912, 92916>>, <<92976, 92982>>,
    <<92992, 92995>>, <<93504, 93506>>, <<93547, 93548>>, <<94031, 94031>>,
    <<94095, 94111>>, <<94176, 94177>>, <<94179, 94180>>, <<94194, 94195>>,
    <<110576, 110579>>, <<110581, 110587>>, <<110589, 110590>>,
    <<113821, 113822>>, <<113824, 113827>>, <<118528, 118573>>,
    <<118576, 118598>>, <<119143, 119145>>, <<119155, 119170>>,
    <<119173, 119179>>, <<119210, 119213>>, <<119362, 119364>>,
    <<121344, 121398>>, <<121403, 121452>>, <<121461, 121461>>,
    <<121476, 121476>>, <<121499, 121503>>, <<121505, 121519>>,
    <<122880, 122886>>, <<122888, 122904>>, <<122907, 122913>>,
    <<122915, 122916>>, <<122918, 122922>>, <<122928, 122989>>,
    <<123023, 123023>>, <<123184, 123197>>, <<123566, 123566>>,
    <<123628, 123631>>, <<124139, 124143>>, <<124398, 124399>>,
    <<124643, 124643>>, <<124646, 124646>>, <<124654, 124655>>,
    <<124661, 124661>>, <<124671, 124671>>, <<125136, 125142>>,
    <<125252, 125259>>, <<127995, 127999>>, <<917505, 917505>>,
    <<917536, 917631>>, <<917760, 917999>>>>

\* String.prototype.toLowerCase(): the text is read code point by code point
\* (a high surrogate followed by a low one is one code point) and each is
\* mapped to its lower case; capital dotted I (U+0130) becomes i followed by
\* the combining dot U+0307, and a capital sigma (U+03A3) becomes the final
\* sigma U+03C2 when a cased letter comes before it and none comes after it,
\* case-ignorable characters apart
toLowerCase(t) ==
  LET RECURSIVE decode(_)
      decode(i) ==
        IF i > Len(t) THEN <<>>
        ELSE LET u == codeUnit(t[i])
                 v == IF i < Len(t) THEN codeUnit(t[i + 1]) ELSE -1
             IN IF u \in 55296..56319 /\ v \in 56320..57343
                THEN <<[ch |-> "", units |-> <<t[i], t[i + 1]>>,
                        cp |-> 65536 + (u - 55296) * 1024 + (v - 56320)]>>
                       \o decode(i + 2)
                ELSE <<[ch |-> t[i], units |-> <<t[i]>>, cp |-> u]>>
                       \o decode(i + 1)
      cps == decode(1)
      within(cp, ranges) ==
        \E k \in 1..Len(ranges) : cp >= ranges[k][1] /\ cp <= ranges[k][2]
      IsCaseIgnorable(x) ==
        \/ x.ch \in {"'", ".", ":", "^", BT}
        \/ within(x.cp, CASE_IGNORABLE_RANGES)
      IsCased(x) ==
        \/ \E k \in 1..26 : x.ch \in {UPPER[k], LOWER[k]}
        \/ within(x.cp, CASED_RANGES)
      before(i) ==
        \E j \in 1..(i - 1) :
           /\ IsCased(cps[j])
           /\ \A m \in (j + 1)..(i - 1) : IsCaseIgnorable(cps[m])
      after(i) ==
        \E j \in (i + 1)..Len(cps) :
           /\ IsCased(cps[j])
           /\ \A m \in (i + 1)..(j - 1) : IsCaseIgnorable(cps[m])
      mapped(cp) ==
        \E k \in 1..Len(LOWER_RANGES) :
           /\ cp >= LOWER_RANGES[k][1] /\ cp <= LOWER_RANGES[k][2]
           /\ (cp - LOWER_RANGES[k][1]) % LOWER_RANGES[k][3] = 0
      lower(i) ==
        LET x == cps[i]
        IN IF x.cp = -1
           THEN IF \E k \in 1..26 : UPPER[k] = x.ch
                THEN <<LOWER[CHOOSE k \in 1..26 : UPPER[k] = x.ch]>>
                ELSE x.units
           ELSE IF x.cp = 304 THEN <<"i", "U+0307">>
           ELSE IF x.cp = 931
                THEN IF before(i) /\ ~after(i) THEN <<"U+03C2">>
                     ELSE <<"U+03C3">>
           ELSE IF mapped(x.cp)
                THEN LET k == CHOOSE k \in 1..Len(LOWER_RANGES) :
                                /\ x.cp >= LOWER_RANGES[k][1]
                                /\ x.cp <= LOWER_RANGES[k][2]
                                /\ (x.cp - LOWER_RANGES[k][1])
                                     % LOWER_RANGES[k][3] = 0
                     IN fromCodePoint(x.cp + LOWER_RANGES[k][4])
           ELSE x.units
      RECURSIVE from(_)
      from(i) == IF i > Len(cps) THEN <<>> ELSE lower(i) \o from(i + 1)
  IN from(1)

\* String.prototype.includes(pattern)
includes(t, pattern) ==
  \E i \in 0..(Len(t) - Len(pattern)) :
     SubSeq(t, i + 1, i + Len(pattern)) = pattern

\* Common local deployment patterns
localPatterns ==
  <<<<"l", "o", "c", "a", "l", "h", "o", "s", "t">>,
    <<"1", "2", "7", ".", "0", ".", "0", ".", "1">>,
    <<"0", ".", "0", ".", "0", ".", "0">>,
    <<"1", "9", "2", ".", "1", "6", "8", ".">>,
    <<"1", "0", ".", "0", ".">>,
    <<"1", "7", "2", ".", "1", "6", ".">>,
    <<"l", "o", "c", "a", "l">>,
    <<":", "1", "2", "3", "4">>,
    <<":", "8", "0", "8", "0">>,
    <<":", "1", "1", "4", "3", "4">>,
    <<":", "8", "0", "0", "0">>>>

\* Model name patterns that indicate local deployment
localModelPatterns ==
  <<<<"l", "o", "c", "a", "l">>,
    <<"o", "l", "l", "a", "m", "a">>,
    <<"l", "l", "a", "m", "a">>,
    <<"m", "i", "s", "t", "r", "a", "l">>,
    <<"q", "w", "e", "n">>,
    <<"c", "o", "d", "e", "l", "l", "a", "m", "a">>,
    <<"v", "i", "c", "u", "n", "a">>,
    <<"a", "l", "p", "a", "c", "a">>>>

\* a classification that compares without lowering the case
isLocalModelCaseSensitive(baseUrl, model, env) ==
  LET openaiBaseUrl == IF truthy(baseUrl) THEN baseUrl.text
                       ELSE IF truthy(env) THEN env.text ELSE <<>>
      isLocalUrl == \E k \in 1..Len(localPatterns) :
                       includes(openaiBaseUrl, localPatterns[k])
      isLocalModelName ==
        IF truthy(model)
        THEN \E k \in 1..Len(localModelPatterns) :
                includes(model.text, localModelPatterns[k])
        ELSE FALSE
  IN isLocalUrl \/ isLocalModelName

\* isLocalModel(baseUrl, model); env is process.env['OPENAI_BASE_URL']
isLocalModel(baseUrl, model, env) ==
  LET openaiBaseUrl == IF truthy(baseUrl) THEN baseUrl.text
                       ELSE IF truthy(env) THEN env.text ELSE <<>>
      isLocalUrl == \E k \in 1..Len(localPatterns) :
                       includes(toLowerCase(openaiBaseUrl), localPatterns[k])
      isLocalModelName ==
        IF truthy(model)
        THEN \E k \in 1..Len(localModelPatterns) :
                includes(toLowerCase(model.text), localModelPatterns[k])
        ELSE FALSE
  IN isLocalUrl \/ isLocalModelName

\* ---- the arguments tried ----
\* 'https://api.openai.com'
URL_OPENAI ==
    <<"h", "t", "t", "p", "s", ":", "/", "/", "a", "p", "i", ".",
      "o", "p", "e", "n", "a", "i", ".", "c", "o", "m">>

\* 'https://api.anthropic.com'
URL_ANTHROPIC ==
    <<"h", "t", "t", "p", "s", ":", "/", "/", "a", "p", "i", ".",
      "a", "n", "t", "h", "r", "o", "p", "i", "c", ".", "c", "o",
      "m">>

\* 'https://generativelanguage.googleapis.com'
URL_GOOGLE ==
    <<"h", "t", "t", "p", "s", ":", "/", "/", "g", "e", "n", "e",
      "r", "a", "t", "i", "v", "e", "l", "a", "n", "g", "u", "a",
      "g", "e", ".", "g", "o", "o", "g", "l", "e", "a", "p", "i",
      "s", ".", "c", "o", "m">>

\* 'https://dashscope.aliyuncs.com'
URL_DASHSCOPE ==
    <<"h", "t", "t", "p", "s", ":", "/", "/", "d", "a", "s", "h",
      "s", "c", "o", "p", "e", ".", "a", "l", "i", "y", "u", "n",
      "c", "s", ".", "c", "o", "m">>

\* 'http://localhost:8080'
URL_LOCALHOST ==
    <<"h", "t", "t", "p", ":", "/", "/", "l", "o", "c", "a", "l",
      "h", "o", "s", "t", ":", "8", "0", "8", "0">>

\* 'HTTP://LOCALHOST:8080'
URL_LOCALHOST_UPPER ==
    <<"H", "T", "T", "P", ":", "/", "/", "L", "O", "C", "A", "L",
      "H", "O", "S", "T", ":", "8", "0", "8", "0">>

\* 'http://192.168.1.100:8080'
URL_LAN ==
    <<"h", "t", "t", "p", ":", "/", "/", "1", "9", "2", ".", "1",
      "6", "8", ".", "1", ".", "1", "0", "0", ":", "8", "0", "8",
      "0">>

\* 'https://example.com:11434'
URL_OLLAMA_PORT ==
    <<"h", "t", "t", "p", "s", ":", "/", "/", "e", "x", "a", "m",
      "p", "l", "e", ".", "c", "o", "m", ":", "1", "1", "4", "3",
      "4">>

\* 'not-a-url'
URL_NOT_A_URL ==
    <<"n", "o", "t", "-", "a", "-", "u", "r", "l">>

\* 'gpt-4'
M_GPT4 ==
    <<"g", "p", "t", "-", "4">>

\* 'claude'
M_CLAUDE ==
    <<"c", "l", "a", "u", "d", "e">>

\* 'gemini'
M_GEMINI ==
    <<"g", "e", "m", "i", "n", "i">>

\* 'qwen'
M_QWEN ==
    <<"q", "w", "e", "n">>

\* 'qwen-max'
M_QWEN_MAX ==
    <<"q", "w", "e", "n", "-", "m", "a", "x">>

\* 'llama-7b'
M_LLAMA ==
    <<"l", "l", "a", "m", "a", "-", "7", "b">>

\* 'LOCAL-MODEL'
M_LOCAL_UPPER ==
    <<"L", "O", "C", "A", "L", "-", "M", "O", "D", "E", "L">>

\* 'model'
M_MODEL ==
    <<"m", "o", "d", "e", "l">>

BaseUrls ==
  {Undefined, Str(<<>>)}
    \cup {Str(u) : u \in {URL_OPENAI, URL_ANTHROPIC, URL_GOOGLE, URL_DASHSCOPE,
                          URL_LOCALHOST, URL_LOCALHOST_UPPER, URL_LAN,
                          URL_OLLAMA_PORT, URL_NOT_A_URL}}

ModelNames ==
  {Undefined, Str(<<>>)}
    \cup {Str(m) : m \in {M_GPT4, M_CLAUDE, M_GEMINI, M_QWEN, M_QWEN_MAX,
                          M_LLAMA, M_LOCAL_UPPER, M_MODEL}}

\* process.env['OPENAI_BASE_URL']: unset, empty, a local or a cloud server
EnvBaseUrls == {Undefined, Str(<<>>), Str(URL_LOCALHOST), Str(URL_OPENAI)}

\* the arguments, before the call
LocalStart ==
  /\ GateIdle
  /\ detector = NewDetector
  /\ telemetry = <<>>
  /\ loopHistory = NewHistory
  /\ pendingChecks = 0
  /\ returned \in {[op |-> "arguments", baseUrl |-> u, model |-> m, env |-> e] :
                     u \in BaseUrls, m \in ModelNames, e \in EnvBaseUrls}

\* isLocalModel(baseUrl, model)
IsLocalModel ==
  /\ returned.op = "arguments"
  /\ returned' = [op |-> "isLocalModel", baseUrl |-> returned.baseUrl,
                  model |-> returned.model, env |-> returned.env,
                  value |-> isLocalModel(returned.baseUrl, returned.model,
                                         returned.env)]
  /\ UNCHANGED <<detector, telemetry, loopHistory, pendingChecks, gateVars>>

LocalNext == IsLocalModel

LocalSpec == LocalStart /\ [][LocalNext]_vars

(***************************************************************************)
(* The specifications.                                                     *)
(***************************************************************************)
\* the gate under every interleaving of its handlers
\* the gate alone, next to a detector nobody uses
GateStart == GateInit /\ LoopInit /\ detector = NewDetector

GateSpec == GateStart /\ [][GateNext]_vars

\* a gate with or without adaptive throttling
ThrottleStart ==
  /\ GateFresh(1..MaxThrottleRequests,
               [maxConcurrentRequests :
                  1..MaxThrottleLimit \cup {LargeThrottleLimit},
                adaptiveThrottling : BOOLEAN])
  /\ LoopInit
  /\ detector = NewDetector

ThrottleSpec == ThrottleStart /\ [][ThrottleNext]_vars

\* a fresh gate with adaptive throttling and maxConcurrentRequests = 4
BurstStart ==
  /\ GateFresh(1..MaxBurstRequests,
               {[maxConcurrentRequests |-> 4, adaptiveThrottling |-> TRUE]})
  /\ LoopInit
  /\ detector = NewDetector

BurstSpec == BurstStart /\ [][BurstNext]_vars

\* a prompt of many turns, from a detector just constructed
TurnStart == GateIdle /\ LoopInit /\ detector = NewDetector

TurnSpec == TurnStart /\ [][TurnNext]_vars

\* the detector fed tool calls, short texts and other events
\* the detector alone, next to a gate nobody uses
LoopStart == GateIdle /\ LoopInit

LoopSpec == LoopStart /\ [][LoopNext]_vars

\* the detector fed texts
ContentSpec == LoopStart /\ [][ContentNext]_vars

\* the detector fed one tool call with its arguments in either key order
ArgsSpec == LoopStart /\ [][ArgsNext]_vars

\* the detector fed the repeated sentence
ChantSpec == LoopStart /\ [][ChantNext]_vars

\* the detector fed long texts, so that the history is truncated
LongSpec == LoopStart /\ [][LongNext]_vars

\* the recovery suggestions of a prompt
PromptsSpec == LoopStart /\ [][PromptsNext]_vars

\* tool calls whose arguments cannot be serialized
ThrowSpec == LoopStart /\ [][ThrowNext]_vars

\* plain text streamed into the chunk analysis
ChunkSpec == TurnStart /\ [][ChunkNext]_vars

\* the recovery nudges of a prompt
RecoverySpec == LoopStart /\ [][RecoveryNext]_vars

\* the turns of a prompt whose semantic checks all give a confidence
IntervalSpec == LoopStart /\ [][IntervalNext]_vars

\* a plain text streamed in pieces
SplitSpec == TurnStart /\ [][SplitNext]_vars

\* the sentence streamed with tool calls in between
MixSpec == TurnStart /\ [][MixNext]_vars

(***************************************************************************)
(* ------------------- Properties of the concurrency gate ---------------- *)
(***************************************************************************)
effectiveLimit == getEffectiveConcurrencyLimit(config, performanceMetrics)

running == {id \in RequestIds : work[id] = "running"}

pendingRequests == {id \in RequestIds : promise[id] = "pending"}

limitWithinConfigured == effectiveLimit <= Max2(1, config.maxConcurrentRequests)

\* activeRequests.size never exceeds the largest maxConcurrentRequests
\* configured so far (or 1)
activeWithinLargestConfigured ==
  Cardinality(activeRequests) <= Max2(1, gateHistory.maxLimitSeen)

\* a step that adds a request to activeRequests leaves activeRequests.size
\* within the effective limit of the state it leads to; activeRequests.size
\* is above the effective limit after a step only if it was above it before
\* or the step lowered the effective limit
admitsBelowLimit ==
  /\ activeRequests' \ activeRequests # {} =>
       Cardinality(activeRequests') <= effectiveLimit'
  /\ Cardinality(activeRequests') > effectiveLimit' =>
       \/ Cardinality(activeRequests) > effectiveLimit
       \/ effectiveLimit' < effectiveLimit

C4_RejectedQueuedNeverStarted ==
  \A id \in gateHistory.rejectedQueued : work[id] = "notstarted"

\* C5: with adaptive throttling off and no failure, timeout, cancellation,
\* clearQueue or updateConfig so far, the pending requests fill the
\* maxConcurrentRequests slots, the rest is queued, and admission is FIFO: the
\* queue is in enqueue order and no admitted request was enqueued after a
\* request that is still queued (ids are given in enqueue order).
C5_FullAndFifo ==
  (gateHistory.undisturbed /\ ~config.adaptiveThrottling) =>
    /\ Cardinality(activeRequests)
         = Min2(config.maxConcurrentRequests, Cardinality(pendingRequests))
    /\ Len(requestQueue)
         = Cardinality(pendingRequests) - Cardinality(activeRequests)
    /\ \A i, j \in 1..Len(requestQueue) :
         i < j => requestQueue[i] < requestQueue[j]
    /\ \A q \in SeqToSet(requestQueue), a \in RequestIds :
         work[a] # "notstarted" => a < q

\* a slot was freed and refilled from the queue while a later request waits
C5_Witness ==
  /\ gateHistory.undisturbed /\ ~config.adaptiveThrottling
  /\ \E a, b \in RequestIds : a < b /\ work[a] = "finished" /\ work[b] = "running"
  /\ Cardinality(activeRequests) = config.maxConcurrentRequests
  /\ Len(requestQueue) > 0

\* C7: a request whose cancel signal fired while its work() is running keeps
\* its concurrency slot until the work() completes.
C7_AbortedActiveKeepsSlot ==
  \A id \in RequestIds :
    (signal[id] = "fired" /\ work[id] = "running") => id \in activeRequests

\* C8: with the configuration never changed, the number of work functions
\* started and not yet finished is at most maxConcurrentRequests.
C8_RunningWithinMax ==
  gateHistory.configUpdates = 0 =>
    Cardinality(running) <= config.maxConcurrentRequests

(***************************************************************************)
(* Properties of the loop detector.                                        *)
(***************************************************************************)
\* the detector as reset(promptId) would leave a freshly constructed one
freshDetector == [NewDetector EXCEPT !.promptId = detector.promptId]

\* C2: in a run of identical tool-call requests fed to a reset detector, with
\* no different tool call and no content in between, addAndCheck returns
\* false while the run holds 1 to 4 calls, true on the 5th call, and true for
\* every event that follows it until reset.
C2_FifthIdenticalToolCall ==
  returned.op = "addAndCheck" =>
    /\ loopHistory.identicalCalls \in 1..(TOOL_CALL_LOOP_THRESHOLD - 1)
         => returned.value = FALSE
    /\ loopHistory.identicalCalls >= TOOL_CALL_LOOP_THRESHOLD
         => returned.value = TRUE

\* the 5th identical call was flagged and a later event was answered true
C2_Witness ==
  /\ returned.op = "addAndCheck"
  /\ loopHistory.identicalCalls = TOOL_CALL_LOOP_THRESHOLD
  /\ loopHistory.laterEvents >= 1
  /\ detector.toolCallRepetitionCount = TOOL_CALL_LOOP_THRESHOLD
  /\ returned.value = TRUE

\* C3: once loopDetected is set, every step other than reset keeps it set,
\* and every addAndCheck returns true and leaves every field of the detector
\* as it was.
C3_LoopDetectedSticky ==
  [][detector.loopDetected /\ returned'.op # "reset" =>
       /\ detector'.loopDetected
       /\ returned'.op = "addAndCheck" =>
            returned'.value = TRUE /\ detector' = detector]_vars

\* a loop was detected and two later addAndCheck calls were answered, in a
\* prompt where the LLM check has run
C3_Witness ==
  /\ detector.loopDetected
  /\ loopHistory.afterLoop >= 2
  /\ returned.op = "addAndCheck"
  /\ returned.value = TRUE
  /\ loopHistory.turnCalls >= 1
  /\ detector.lastCheckTurn = LLM_CHECK_AFTER_TURNS

\* C6: right after reset the detector answers every event as a freshly
\* constructed detector does.
C6_ResetIsFresh ==
  returned.op = "reset" =>
    \A e \in LoopEvents :
      addAndCheck(detector, e).ret = addAndCheck(freshDetector, e).ret

\* C9: while the text streamed since reset is one well-formed fenced code
\* block, open or just closed, addAndCheck has returned false.
C9_FencedBlockNeverLoops ==
  returned.op = "addAndCheck" /\ loopHistory.fenced \in {"open", "closed"}
    => returned.value = FALSE

\* C10: the content history holds at most MAX_HISTORY_LENGTH characters.
C10_HistoryWithinCap ==
  Len(detector.streamContentHistory) <= MAX_HISTORY_LENGTH

\* C11: every offset stored in contentStats is the start of a whole chunk of
\* the current history, and that chunk is the one its fingerprint stands for.
C11_StatsPointAtTheirChunks ==
  \A h \in DOMAIN detector.contentStats :
    \A k \in 1..Len(detector.contentStats[h]) :
      LET i == detector.contentStats[h][k]
      IN /\ 0 <= i
         /\ i + CONTENT_CHUNK_SIZE <= Len(detector.streamContentHistory)
         /\ sha256(substring(detector.streamContentHistory, i,
                              i + CONTENT_CHUNK_SIZE)) = h

\* the history was truncated twice and chunks recorded before are still there
C11_Witness ==
  /\ loopHistory.truncations >= 2
  /\ Len(detector.streamContentHistory) = MAX_HISTORY_LENGTH
  /\ \E h \in DOMAIN detector.contentStats :
        /\ Len(detector.contentStats[h]) >= 2
        /\ detector.contentStats[h][1] < CONTENT_CHUNK_SIZE

(***************************************************************************)
(* Properties of the gate: timeouts, cancellation, clearQueue.             *)
(***************************************************************************)
\* the items of q2 are items of q1, in the order they have in q1
orderKept(q1, q2) ==
  \A i, j \in 1..Len(q2) :
    i < j => \E m, n \in 1..Len(q1) : m < n /\ q1[m] = q2[i] /\ q1[n] = q2[j]

queued == SeqToSet(requestQueue)

\* this step is the queue timeout of request id, which was queued
timesOut(id) ==
  /\ id \in queued
  /\ timer[id]
  /\ promise[id] = "pending"
  /\ promise'[id] = ERR_TIMEOUT

\* C12 as stated: the queue timeout of a queued request removes it from the
\* queue and rejects it with the timeout error; no other promise settles,
\* the other queued requests keep their order, and the set of active
\* requests is unchanged.
C12_TimeoutTouchesNothingElse ==
  [][\A id \in RequestIds : timesOut(id) =>
       /\ id \notin SeqToSet(requestQueue')
       /\ \A o \in RequestIds \ {id} : promise'[o] = promise[o]
       /\ orderKept(requestQueue, requestQueue')
       /\ activeRequests' = activeRequests]_vars

\* C12 amended: the queue timeout of a queued request removes it from the
\* queue and rejects it with the timeout error; no other promise settles and
\* no active request is removed; the requests that become active are the
\* head of the remaining queue, the rest of the queue is unchanged; when the
\* gate was full nothing is admitted.
C12_TimeoutRejectsOnlyItsRequest ==
  [][\A id \in RequestIds : timesOut(id) =>
       LET rest == removeFromQueue(requestQueue, id)
           admitted == activeRequests' \ activeRequests
       IN /\ id \notin SeqToSet(requestQueue')
          /\ id \notin activeRequests'
          /\ work'[id] = "notstarted"
          /\ \A o \in RequestIds \ {id} : promise'[o] = promise[o]
          /\ activeRequests \subseteq activeRequests'
          /\ Cardinality(admitted) <= Len(rest)
          /\ admitted = SeqToSet(SubSeq(rest, 1, Cardinality(admitted)))
          /\ requestQueue' = SubSeq(rest, Cardinality(admitted) + 1, Len(rest))
          /\ Cardinality(activeRequests) >= effectiveLimit
               => activeRequests' = activeRequests /\ requestQueue' = rest]_vars

\* a request timed out in the queue while a request behind it stays queued
\* and an active request keeps running
C12_Witness ==
  \E id, o, a \in RequestIds :
    /\ promise[id] = ERR_TIMEOUT
    /\ id \in gateHistory.rejectedQueued
    /\ id < o
    /\ o \in queued /\ promise[o] = "pending" /\ timer[o]
    /\ a \in activeRequests /\ work[a] = "running" /\ promise[a] = "pending"

\* the requests whose cancel signal fired while they were queued
abortedQueued == gateHistory.abortedQueued

\* C13: a request whose cancel signal fired while it was queued is out of the
\* queue, its promise is rejected as aborted, its queue timer is cleared and
\* its work is never started.
C13_AbortedQueuedNeverRuns ==
  \A id \in RequestIds :
    id \in abortedQueued =>
      /\ promise[id] = ERR_ABORTED
      /\ id \notin queued
      /\ id \notin activeRequests
      /\ ~timer[id]
      /\ work[id] = "notstarted"

\* a request behind the head of the queue was cancelled, and a request
\* submitted after it has run to completion since
C13_Witness ==
  \E id, o \in RequestIds :
    /\ id \in abortedQueued
    /\ 1 < id /\ id < o
    /\ promise[o] = "fulfilled"

\* this step is a clearQueue() call made with requests in the queue
clearsQueue ==
  \E id \in queued : promise[id] = "pending" /\ promise'[id] = ERR_CLEARED

\* C14: when clearQueue() returns the queue is empty, and every request that
\* was queued at the call is rejected with "Request queue cleared" and its
\* work has not been started.
C14_ClearQueueRejectsAllQueued ==
  [][clearsQueue =>
       /\ requestQueue' = <<>>
       /\ \A id \in queued :
            /\ promise'[id] = ERR_CLEARED
            /\ work'[id] = "notstarted"
            /\ id \notin activeRequests']_vars

\* C15: clearQueue() leaves the set of active requests as it was, and the
\* promise and the work of every active request as they were.
C15_ClearQueueKeepsActive ==
  [][clearsQueue =>
       /\ activeRequests' = activeRequests
       /\ \A a \in activeRequests :
            promise'[a] = promise[a] /\ work'[a] = work[a]]_vars

settled == {id \in submitted : promise[id] # "pending"}

\* C16: in a run without updateConfig, once every promise returned by
\* executeRequest has settled, no request is active and none is queued.
C16_QuiescentWhenAllSettled ==
  gateHistory.configUpdates = 0 /\ settled = submitted =>
    activeRequests = {} /\ requestQueue = <<>>

\* C16 with maxConcurrentRequests at least 1: throttling then never raises
\* the effective limit above the configured one, and the gate is quiescent
\* once every promise has settled
C16_QuiescentWithPositiveLimit ==
  /\ gateHistory.configUpdates = 0
  /\ config.maxConcurrentRequests >= 1
  /\ settled = submitted
  => activeRequests = {} /\ requestQueue = <<>>

\* every request was submitted and has settled: one fulfilled, one cancelled
\* and one rejected by clearQueue
C16_Witness ==
  /\ gateHistory.configUpdates = 0
  /\ config.maxConcurrentRequests >= 1
  /\ submitted = RequestIds
  /\ settled = submitted
  /\ {"fulfilled", ERR_ABORTED, ERR_CLEARED}
       \subseteq {promise[id] : id \in RequestIds}
  /\ activeRequests = {}

(***************************************************************************)
(* More properties of the loop detector.                                   *)
(***************************************************************************)
\* the events of type loopType logged for the current prompt
logged(loopType) ==
  SelectSeq(telemetry,
            LAMBDA e : e.loop_type = loopType /\ e.prompt_id = detector.promptId)

\* C17: when only the sentence ABC20 was fed since reset, in one chunk or in
\* several, addAndCheck has returned false and logged nothing as long as
\* fewer than four sentences were fed, and has returned true with one
\* chanting_identical_sentences event logged once four were.
C17_FourSentencesChant ==
  returned.op = "addAndCheck" /\ loopHistory.chant >= 1 =>
    IF loopHistory.chant < CONTENT_LOOP_THRESHOLD
    THEN returned.value = FALSE
         /\ logged("chanting_identical_sentences") = <<>>
    ELSE returned.value = TRUE
         /\ Len(logged("chanting_identical_sentences")) = 1

\* the fourth sentence came in a chunk of its own and was flagged
C17_Witness ==
  /\ returned.op = "addAndCheck"
  /\ loopHistory.chant = CONTENT_LOOP_THRESHOLD
  /\ loopHistory.calls = CONTENT_LOOP_THRESHOLD
  /\ returned.value = TRUE
  /\ Len(logged("chanting_identical_sentences")) = 1

\* C18: tool calls with the same name and the same arguments, whatever the
\* order of the keys, get the same fingerprint and count as consecutive
\* identical calls: the repetition count follows the run, and the fifth
\* call of the run is flagged.
C18_KeyOrderIrrelevant ==
  returned.op = "addAndCheck" /\ loopHistory.identicalCalls >= 1 =>
    /\ detector.lastToolCallKey = getToolCallKey(loopHistory.runCall)
    /\ detector.toolCallRepetitionCount
         = Min2(loopHistory.identicalCalls, TOOL_CALL_LOOP_THRESHOLD)
    /\ returned.value = (loopHistory.identicalCalls >= TOOL_CALL_LOOP_THRESHOLD)

(***************************************************************************)
(* The schedule of the semantic check.                                     *)
(***************************************************************************)
\* a step that is one call of turnStarted, up to its return or its await
turnStep ==
  /\ returned'.op = "turnStarted"
  /\ loopHistory'.turnCalls = loopHistory.turnCalls + 1

\* a step in which generateJson settles and a pending call of turnStarted
\* resolves
settleStep ==
  /\ returned'.op = "generateJson"
  /\ pendingChecks' = pendingChecks - 1

\* the schedule as the turns count it: the turn this step starts is at least
\* the floor, and the interval has passed since the turn of the last check
scheduled ==
  /\ loopHistory'.turnCalls >= LLM_CHECK_AFTER_TURNS
  /\ loopHistory'.turnCalls - loopHistory.lastCheck >= detector.llmCheckInterval

\* C19 as stated: a turn queries the model for a semantic check if and only
\* if it is turn 30 or later and at least llmCheckInterval turns after the
\* turn of the previous check
C19_QueriedIffScheduled ==
  [][turnStep =>
       ((returned'.check \notin {"none", "skipped"}) <=> scheduled)]_vars

\* C19: a turn enters the semantic check if and only if it is turn 30 or
\* later and at least llmCheckInterval turns after the turn of the previous
\* check; the check then queries the model unless the authType is 'openai',
\* where it answers false and leaves the interval alone; turns 1 to 29 enter
\* no check and resolve false
C19_CheckIffScheduled ==
  [][turnStep =>
       /\ (returned'.check # "none") <=> scheduled
       /\ returned'.check = "skipped" =>
            /\ returned'.value = FALSE
            /\ detector'.llmCheckInterval = detector.llmCheckInterval
       /\ loopHistory'.turnCalls < LLM_CHECK_AFTER_TURNS =>
            /\ returned'.check = "none"
            /\ returned'.value = FALSE]_vars

\* the model was queried at turn 30, the interval became 10, and turn 40
\* queried it again
C19_Witness ==
  /\ returned.op = "turnStarted"
  /\ returned.check = "query"
  /\ loopHistory.turnCalls = 40
  /\ loopHistory.lastCheck = 40
  /\ detector.lastCheckTurn = 40
  /\ detector.llmCheckInterval = 10

\* C20: when the model call of the semantic check rejects (a failure, or the
\* abort signal), turnStarted resolves false and logs nothing, and
\* loopDetected, the tool-call counters, the content history and statistics
\* and llmCheckInterval are what they were before the call: the call changes
\* none of them on its way to the query, and the rejection changes no field
\* at all (what other calls do while the query is pending is theirs)
C20_FailedCheckChangesNothing ==
  [][/\ turnStep /\ returned'.check = "query" =>
          /\ telemetry' = telemetry
          /\ detector'.loopDetected = detector.loopDetected
          /\ detector'.lastToolCallKey = detector.lastToolCallKey
          /\ detector'.toolCallRepetitionCount
               = detector.toolCallRepetitionCount
          /\ detector'.streamContentHistory = detector.streamContentHistory
          /\ detector'.contentStats = detector.contentStats
          /\ detector'.lastContentIndex = detector.lastContentIndex
          /\ detector'.inCodeBlock = detector.inCodeBlock
          /\ detector'.llmCheckInterval = detector.llmCheckInterval
     /\ settleStep /\ returned'.check = "throws" =>
          /\ returned'.value = FALSE
          /\ telemetry' = telemetry
          /\ detector' = detector]_vars

\* the model call of turn 40 rejected, on a detector whose interval an
\* earlier check had set to 10 and that holds a tool call and streamed text
C20_Witness ==
  /\ returned.op = "generateJson"
  /\ returned.check = "throws"
  /\ returned.value = FALSE
  /\ loopHistory.lastCheck = 40
  /\ detector.llmCheckInterval = 10
  /\ detector.toolCallRepetitionCount = 1
  /\ detector.streamContentHistory = WORD

(***************************************************************************)
(* The recovery nudges.                                                    *)
(***************************************************************************)
\* C21: shouldAttemptAutoRecovery returns true if and only if fewer than 2
\* recordRecoveryAttempt calls were made since the last reset, and a caller
\* that records an attempt only right after it returned true records at most
\* 2 attempts in a prompt
C21_RecoveryBudget ==
  /\ returned.op = "shouldAttemptAutoRecovery" =>
       (returned.value <=> loopHistory.recoveryCalls < MAX_RECOVERY_ATTEMPTS)
  /\ loopHistory.guarded => loopHistory.recoveryCalls <= MAX_RECOVERY_ATTEMPTS

\* after two guarded attempts the answer is false
C21_Witness ==
  /\ returned.op = "shouldAttemptAutoRecovery"
  /\ returned.value = FALSE
  /\ loopHistory.guarded
  /\ loopHistory.recoveryCalls = MAX_RECOVERY_ATTEMPTS

\* C22: loopRecoveryAttempts never exceeds the maximum of 2, whatever calls
\* are made
C22_AttemptsCapped ==
  detector.loopRecoveryAttempts <= MAX_RECOVERY_ATTEMPTS

\* C23: getLoopRecoveryPrompts returns the three base prompts followed by
\* the tool-call prompts if and only if a loop was detected on a tool call in
\* the current prompt, and the base prompts followed by the content prompts
\* in every other case
C23_PromptsByDetector ==
  returned.op = "getLoopRecoveryPrompts" =>
    returned.value =
      basePrompts \o (IF "tool_call_request" \in loopHistory.trippedOn
                      THEN toolCallPrompts ELSE contentPrompts)

\* the suggestions asked for after the fifth identical tool call
C23_Witness ==
  /\ returned.op = "getLoopRecoveryPrompts"
  /\ "tool_call_request" \in loopHistory.trippedOn
  /\ loopHistory.calls >= TOOL_CALL_LOOP_THRESHOLD
  /\ detector.loopDetected
  /\ Len(returned.value) = 5
  /\ returned.value[4] = toolCallPrompts[1]

(***************************************************************************)
(* Errors inside the analysis.                                             *)
(***************************************************************************)
\* C24: addAndCheck never throws: for every event it returns a boolean, and
\* after an error inside the analysis that boolean is false
C24_AddAndCheckNeverThrows ==
  returned.op = "addAndCheck" =>
    /\ ~returned.thrown
    /\ returned.value \in BOOLEAN

(***************************************************************************)
(* Adaptive throttling.                                                    *)
(***************************************************************************)
\* Math.floor(n * num / den), as the largest integer not above the quotient
floorOf(n, num, den) ==
  CHOOSE k \in 0..n : den * k <= num * n /\ num * n < den * (k + 1)

\* the limit as the rules give it, the metrics compared as numbers of the
\* program (0.2 is the double nearest to it)
limitAsStated ==
  IF ~config.adaptiveThrottling THEN config.maxConcurrentRequests
  ELSE IF dGreater(performanceMetrics.errorRate, dDiv(2, 10))
       THEN Max2(1, floorOf(config.maxConcurrentRequests, 5, 10))
  ELSE IF dGreater(performanceMetrics.averageResponseTime, dFromInt(30000))
       THEN Max2(1, floorOf(config.maxConcurrentRequests, 7, 10))
  ELSE config.maxConcurrentRequests

\* requests that this step admits
admitted == {id \in DOMAIN work : work[id] = "notstarted" /\ work'[id] = "running"}

\* C25: the effective limit is maxConcurrentRequests without adaptive
\* throttling; with it, max(1, floor(max * 0.5)) when the error rate is above
\* 0.2, else max(1, floor(max * 0.7)) when the average latency is above
\* 30000 ms, else maxConcurrentRequests; and a step that admits a request
\* admits it within the limit that the metrics of that step give
C25_EffectiveLimit ==
  [][/\ effectiveLimit' = limitAsStated'
     /\ admitted # {} => Cardinality(activeRequests') <= effectiveLimit']_vars

\* the burst is over: every request was submitted and its work has failed
burstOver ==
  /\ Cardinality(DOMAIN promise) = 10
  /\ \A id \in DOMAIN promise : promise[id] = ERR_WORK /\ work[id] = "finished"
  /\ activeRequests = {}
  /\ requestQueue = <<>>

\* C26: on a fresh gate with adaptive throttling and maxConcurrentRequests
\* = 4, once 10 requests whose work fails have all completed the error rate
\* is above 0.5 and the effective limit is below 4
C26_ErrorRateAboveHalf ==
  burstOver =>
    /\ dGreater(performanceMetrics.errorRate, dDiv(1, 2))
    /\ effectiveLimit < 4

(***************************************************************************)
(* Local-backend classification.                                           *)
(***************************************************************************)
\* the base URLs tried that hold a loopback or private-network address or a
\* well-known local inference port, read off by hand
LocalBaseUrls ==
  {Str(u) : u \in {URL_LOCALHOST, URL_LOCALHOST_UPPER, URL_LAN, URL_OLLAMA_PORT}}

\* the model names tried that hold a local model family, read off by hand
LocalModelNames == {Str(m) : m \in {M_QWEN, M_QWEN_MAX, M_LLAMA, M_LOCAL_UPPER}}

\* C27 as stated: isLocalModel returns true if and only if the base URL
\* holds a local URL pattern or the model name holds a local model family,
\* in any case of the letters; with neither, undefined and empty arguments
\* included, it returns false
C27_LocalIffUrlOrName ==
  returned.op = "isLocalModel" =>
    (returned.value <=> \/ returned.baseUrl \in LocalBaseUrls
                        \/ returned.model \in LocalModelNames)

\* C27: the URL that is tested is the base URL or, when that is undefined or
\* empty, the environment variable OPENAI_BASE_URL; isLocalModel returns true
\* if and only if that URL holds a local URL pattern or the model name holds
\* a local model family, in any case of the letters
C27_LocalIffUrlOrEnvOrName ==
  returned.op = "isLocalModel" =>
    (returned.value <=>
       \/ (IF truthy(returned.baseUrl) THEN returned.baseUrl ELSE returned.env)
             \in LocalBaseUrls
       \/ returned.model \in LocalModelNames)

\* a cloud URL with a local model family name in capitals
C27_Witness ==
  /\ returned.op = "isLocalModel"
  /\ returned.baseUrl = Str(URL_OPENAI)
  /\ returned.model = Str(M_LOCAL_UPPER)
  /\ returned.env = Undefined
  /\ returned.value = TRUE

\* the cloud endpoints with their own hosted models
CloudPairs ==
  {<<Str(URL_OPENAI), Str(M_GPT4)>>, <<Str(URL_ANTHROPIC), Str(M_CLAUDE)>>,
   <<Str(URL_GOOGLE), Str(M_GEMINI)>>, <<Str(URL_DASHSCOPE), Str(M_QWEN)>>,
   <<Str(URL_DASHSCOPE), Str(M_QWEN_MAX)>>}

\* C28: a cloud endpoint with that provider's own hosted model is not
\* classified as local
C28_CloudPairsNotLocal ==
  returned.op = "isLocalModel"
    /\ <<returned.baseUrl, returned.model>> \in CloudPairs
  => returned.value = FALSE

(***************************************************************************)
(* Telemetry of the detections.                                            *)
(***************************************************************************)
\* the promptId of the latest reset ('' before the first)
latestPromptId ==
  IF loopHistory.prompts = 0 THEN "" ELSE PromptIds[loopHistory.prompts]

\* the telemetry event of a detection made on that kind of event
expectedEvent(kind) ==
  [loop_type |-> CASE kind = "tool_call_request" -> "consecutive_identical_tool_calls"
                   [] kind = "content" -> "chanting_identical_sentences"
                   [] kind = "turn" -> "llm_detected_loop",
   prompt_id |-> latestPromptId]

\* C29: every first detection of a loop emits exactly one loop-detected
\* event with the promptId of the latest reset and the type of the detector
\* that tripped (tool calls, content by any heuristic, or the semantic check
\* of turnStarted), and a call that detects nothing emits none
C29_OneEventPerDetection ==
  [][/\ returned'.op = "addAndCheck"
        /\ loopHistory'.calls = loopHistory.calls + 1 =>
          IF ~detector.loopDetected /\ returned'.value = TRUE
          THEN \E kind \in loopHistory'.trippedOn \ loopHistory.trippedOn :
                  telemetry' = Append(telemetry, expectedEvent(kind))
          ELSE telemetry' = telemetry
     /\ turnStep => telemetry' = telemetry
     /\ settleStep =>
          IF returned'.value = TRUE
          THEN telemetry' = Append(telemetry, expectedEvent("turn"))
          ELSE telemetry' = telemetry]_vars

(***************************************************************************)
(* The chunk analysis.                                                     *)
(***************************************************************************)
\* the window of 20 characters at offset o (0-based) of a text
windowAt(t, o) == SubSeq(t, o + 1, o + CONTENT_CHUNK_SIZE)

\* the content of the window at offset w occurs at least 4 times up to w and
\* its 4th most recent occurrence lies at most 3 * 40 characters before w:
\* that is, at least 4 of its occurrences lie in the 120 characters up to w
clustered(t, w) ==
  Cardinality({o \in Max2(0, w - 3 * 2 * CONTENT_CHUNK_SIZE)..w :
                 windowAt(t, o) = windowAt(t, w)})
    >= CONTENT_LOOP_THRESHOLD

\* a step that is one call of addAndCheck on a Content event which the chunk
\* analysis has looked at
chunkStep ==
  /\ returned'.op = "addAndCheck"
  /\ loopHistory'.calls = loopHistory.calls + 1
  /\ ~detector.loopDetected
  /\ detector'.streamContentHistory # detector.streamContentHistory

\* the chunk analysis declared a loop in this step
declared ==
  /\ Len(telemetry') = Len(telemetry) + 1
  /\ telemetry'[Len(telemetry')].loop_type = "chanting_identical_sentences"

\* all the text tracked since the last reset of the content tracking
tracked == loopHistory.dropped \o detector.streamContentHistory

\* C30 as stated: the chunk analysis declares a loop at a window exactly when
\* that window's content was recorded at least 4 times since the last reset
\* of the content tracking and its last 4 occurrences span at most 3 * 40
\* characters
C30_LoopIffClusteredSinceReset ==
  [][chunkStep =>
       /\ declared =>
            clustered(tracked', Len(loopHistory'.dropped) + detector'.lastContentIndex)
       /\ ~detector'.loopDetected =>
            \A w \in 0..(detector'.lastContentIndex - 1) :
               ~clustered(tracked', Len(loopHistory'.dropped) + w)]_vars

\* C30: the chunk analysis declares a loop at a window exactly when that
\* window's content occurs at least 4 times in the history that is kept (the
\* last 1000 characters: occurrences cut off by truncation are forgotten) and
\* its last 4 occurrences span at most 3 * 40 characters; occurrences spread
\* more widely declare no loop
C30_LoopIffClusteredInHistory ==
  [][chunkStep =>
       /\ declared =>
            clustered(detector'.streamContentHistory, detector'.lastContentIndex)
       /\ ~detector'.loopDetected =>
            \A w \in 0..(detector'.lastContentIndex - 1) :
               ~clustered(detector'.streamContentHistory, w)]_vars

\* the fourth sentence in a row has just declared a loop
C30_Witness ==
  /\ returned.op = "addAndCheck"
  /\ returned.value = TRUE
  /\ Len(logged("chanting_identical_sentences")) = 1
  /\ detector.streamContentHistory = Rep(ABC20, 4)
  /\ detector.lastContentIndex = 3 * CONTENT_CHUNK_SIZE

(***************************************************************************)
(* The character-repetition fast path.                                     *)
(***************************************************************************)
\* C31: on a Content chunk that the heuristic looks at (no loop detected
\* yet, outside a code block) the character-repetition fast path flags a
\* loop exactly when one character that is neither white space nor markdown
\* punctuation occurs 16 or more times in a row in the chunk, or in the last
\* 300 characters of the history streamed before it followed by the chunk;
\* text in which no such run was streamed is never flagged
C31_CharRunIffSixteenInWindow ==
  [][\A c \in {A8, WORD, A1001} :
       /\ AddAndCheck(Content(c), MaxContentEvents)
       /\ ~detector.loopDetected
       /\ ~detector.inCodeBlock
       => (detector'.loopDetected <=>
             \/ hasCharRepeat(c)
             \/ hasCharRepeat(sliceLast(detector.streamContentHistory, 300)
                                \o c))]_vars

(***************************************************************************)
(* Tool calls between texts.                                               *)
(***************************************************************************)
\* C32: after a ToolCallRequest event processed while no loop is detected
\* the content tracking is reset (streamContentHistory and contentStats are
\* empty, lastContentIndex is 0), so what was streamed before a tool call is
\* never counted with what is streamed after it
C32_ToolCallResetsContentTracking ==
  [][\A e \in {ev \in MixEvents : ev.type = "tool_call_request"} :
       AddAndCheck(e, MaxMixEvents) /\ ~detector.loopDetected
       => /\ detector'.streamContentHistory = <<>>
          /\ detector'.contentStats = <<>>
          /\ detector'.lastContentIndex = 0]_vars

\* sentences were streamed and tracked, then a tool call came: nothing is
\* tracked any more
C32_Witness ==
  /\ returned.op = "addAndCheck"
  /\ ~detector.loopDetected
  /\ loopHistory.chant = -1
  /\ loopHistory.identicalCalls = -1
  /\ detector.toolCallRepetitionCount >= 1
  /\ detector.streamContentHistory = <<>>
  /\ detector.contentStats = <<>>
  /\ detector.lastContentIndex = 0
  /\ loopHistory.calls >= 4

(***************************************************************************)
(* The interval of the semantic check.                                     *)
(***************************************************************************)
\* Math.round(x) of the rational num / den >= 0
roundOf(num, den) == (2 * num + den) \div (2 * den)

\* round(5 + (15 - 5) * (1 - c)) for a confidence c in 1/1000
intervalAsStated(c) ==
  roundOf(MIN_LLM_CHECK_INTERVAL * 1000
            + (MAX_LLM_CHECK_INTERVAL - MIN_LLM_CHECK_INTERVAL) * (1000 - c),
          1000)

\* C33: when a semantic check returns a numeric confidence c, turnStarted
\* resolves true if c > 0.9; otherwise (c = 0.9 included) it resolves false
\* and sets llmCheckInterval to round(5 + (15 - 5) * (1 - c)), which for c in
\* [0, 0.9] lies between 5 and 15 and never increases as c increases
C33_IntervalFromConfidence ==
  [][\A llm \in ConfidenceOutcomes :
       GenerateJsonSettled(llm)
       => IF llm.confidence > 900
          THEN returned'.value = TRUE
          ELSE /\ returned'.value = FALSE
               /\ detector'.llmCheckInterval = intervalAsStated(llm.confidence)
               /\ detector'.llmCheckInterval >= MIN_LLM_CHECK_INTERVAL
               /\ detector'.llmCheckInterval <= MAX_LLM_CHECK_INTERVAL
               /\ \A lower \in ConfidenceOutcomes :
                    lower.confidence <= llm.confidence =>
                      checkForLoopWithLLM(detector, lower).d.llmCheckInterval
                        >= detector'.llmCheckInterval]_vars

\* the check of turn 30 came back with a confidence of exactly 0.9: no loop,
\* and the next check is 6 turns away
C33_Witness ==
  /\ returned.op = "generateJson"
  /\ returned.check = "confidence"
  /\ returned.value = FALSE
  /\ ~detector.loopDetected
  /\ detector.lastCheckTurn = LLM_CHECK_AFTER_TURNS
  /\ detector.turnsInCurrentPrompt = LLM_CHECK_AFTER_TURNS
  /\ detector.llmCheckInterval = 6

(***************************************************************************)
(* A loop declared by the semantic check.                                  *)
(***************************************************************************)
\* C34: after turnStarted has resolved true (the semantic check declared a
\* loop) the detector is in its terminal loop state: every later addAndCheck
\* returns true, for any event, until reset is called
C34_TerminalAfterSemanticLoop ==
  [][/\ "turn" \in loopHistory.trippedOn
     /\ returned'.op = "addAndCheck"
     /\ loopHistory'.calls = loopHistory.calls + 1
     => /\ returned'.value = TRUE
        /\ detector'.loopDetected]_vars

(***************************************************************************)
(* What the gate observes of a request.                                    *)
(***************************************************************************)
\* a step in which a handler of request id runs: its work resolves or
\* throws, its queue timer fires, or its cancel signal fires
handled(id) ==
  \/ \E rt \in ResponseTimes : WorkResolve(id, rt)
  \/ WorkThrow(id)
  \/ QueueTimeout(id)
  \/ Abort(id)

\* C35: each request contributes at most one observation to the performance
\* metrics over its lifetime (one error-rate update, at most one latency
\* update), whatever the interleaving of its completion, its queue timeout,
\* its cancel signal and clearQueue: once its promise is settled, and so its
\* observation made, no handler of the request changes the metrics again
C35_OneObservationPerRequest ==
  [][\A id \in RequestIds :
       promise[id] \notin {"unsubmitted", "pending"} /\ handled(id)
       => performanceMetrics' = performanceMetrics]_vars

\* C36: a request rejected while it is still queued (queue timeout, cancel
\* signal, clearQueue) changes neither the error rate, nor the average
\* latency, nor the effective concurrency limit
C36_QueuedRejectionKeepsMetrics ==
  [][\/ \E id \in SeqToSet(requestQueue) : QueueTimeout(id) \/ Abort(id)
     \/ ClearQueue
     => /\ performanceMetrics'.errorRate = performanceMetrics.errorRate
        /\ performanceMetrics'.averageResponseTime
             = performanceMetrics.averageResponseTime
        /\ getEffectiveConcurrencyLimit(config', performanceMetrics')
             = getEffectiveConcurrencyLimit(config, performanceMetrics)]_vars

\* C37: the dispatcher is work-conserving: whenever an operation has
\* finished, a non-empty queue means that activeRequests holds at least as
\* many requests as the effective concurrency limit
C37_WorkConserving ==
  Len(requestQueue) > 0 => Cardinality(activeRequests) >= effectiveLimit

\* C38: a request submitted with a cancel signal that is already aborted has
\* its promise rejected as aborted and its work is never started
C38_AbortedBeforeNeverRuns ==
  \A id \in RequestIds :
    signal[id] = "aborted_before" =>
      promise[id] = ERR_ABORTED /\ work[id] = "notstarted"

(***************************************************************************)
(* One text, several splittings.                                           *)
(***************************************************************************)
\* C39: for text without markdown markers or code fences, whether a loop is
\* detected by the time the whole text has been fed depends on the text only,
\* not on how it is split into Content events: the verdict reached chunk by
\* chunk is the verdict of the same text fed as one chunk
C39_VerdictIndependentOfSplitting ==
  [][\A e \in SplitEvents :
       AddAndCheckKeeping(e, MaxSplitEvents, TRUE) /\ ~detector.loopDetected
       => detector'.loopDetected
            = addAndCheck(NewDetector, Content(tracked \o e.value)).ret]_vars

(***************************************************************************)
(* Texts between identical tool calls.                                     *)
(***************************************************************************)
\* C40: Content events and events of other types never change
\* lastToolCallKey or toolCallRepetitionCount, and each tool call that
\* repeats the last one adds one to the count whatever was streamed in
\* between: five ToolCallRequest events with the same name and arguments,
\* with Content events between them and no different tool call, make
\* addAndCheck return true on the fifth
C40_ContentKeepsToolCallRun ==
  [][\A e \in MixEvents :
       AddAndCheck(e, MaxMixEvents) =>
         IF e.type = "tool_call_request"
         THEN ~detector.loopDetected =>
                /\ detector'.lastToolCallKey = getToolCallKey(e.value)
                /\ detector'.toolCallRepetitionCount =
                     IF detector.lastToolCallKey = getToolCallKey(e.value)
                     THEN detector.toolCallRepetitionCount + 1 ELSE 1
                /\ returned'.value =
                     (detector'.toolCallRepetitionCount
                        >= TOOL_CALL_LOOP_THRESHOLD)
         ELSE /\ detector'.lastToolCallKey = detector.lastToolCallKey
              /\ detector'.toolCallRepetitionCount
                   = detector.toolCallRepetitionCount]_vars

\* the fifth identical tool call has just been answered true, in a prompt of
\* six events whose sixth, a text, came before it
C40_Witness ==
  /\ returned.op = "addAndCheck"
  /\ returned.value = TRUE
  /\ loopHistory.calls = TOOL_CALL_LOOP_THRESHOLD + 1
  /\ loopHistory.afterLoop = 0
  /\ loopHistory.identicalCalls = -1
  /\ loopHistory.trippedOn = {"tool_call_request"}
  /\ detector.toolCallRepetitionCount = TOOL_CALL_LOOP_THRESHOLD
  /\ Len(logged("consecutive_identical_tool_calls")) = 1

====
